---- MODULE Spec2Model ----
(***************************************************************************)
(* Entity store and undo/redo engine of the drawing tool (src/src/state.rs). *)
(*                                                                         *)
(* The four arenas of State are slotmap::SlotMap values.  A SlotMap is a   *)
(* vector of slots, each with a version counter (odd = occupied, even =    *)
(* vacant), and a LIFO free list threaded through the vacant slots; a key  *)
(* is the pair (slot index, version at insertion).  `strokes` and          *)
(* `stroke_graveyard` are two SlotMaps of the same key type (DefaultKey),  *)
(* `text` and `text_graveyard` two SlotMaps of the key type TextKey.       *)
(*                                                                         *)
(* Every entity carries a ghost serial number `id` (the ordinal of the     *)
(* add_* call that created it), so that two strokes of equal content stay  *)
(* distinguishable in the properties; `issued` counts the add_* calls, the *)
(* direct calls of the primitives and the loads.  `hist` is a history      *)
(* variable: the most recent operations, each with the store it was        *)
(* applied to.  `owner` and `consumed` are ghost registers of the keys:     *)
(* for which entity each arena issued each of its keys, and which keys a   *)
(* removal from an arena has used up.  `loop` is the position of a call of  *)
(* undo() or redo() that is followed pass by pass through its loop.        *)
(*                                                                         *)
(* The frame loop of run() (src/src/app.rs) with the key handlers of       *)
(* src/src/input.rs is modelled frame by frame: `locals` holds the local   *)
(* variables of run() that the loop carries from one frame to the next,    *)
(* and `held` is a ghost counter of the executions of each press command   *)
(* during the present continuous hold of its key combination.              *)
(***************************************************************************)
EXTENDS Integers, Sequences, FiniteSets, TLC

VARIABLES state, issued, hist, owner, consumed, loop, locals, held

vars == <<state, issued, hist, owner, consumed, loop, locals, held>>

----------------------------------------------------------------------------
(* Bounds of the model *)

\* total number of entities created (add_stroke*, add_text* calls)
MaxEntities == 2
\* number of times one slot of an arena may be occupied again after a removal
MaxReuse == 1
\* longest undo_actions / redo_actions explored
MaxLog == 4
\* longest key list handed to delete_strokes
MaxKeys == 2
\* number of direct calls of the store primitives (add_*, remove_*, restore_*),
\* the out-of-band calls that bypass the action log
MaxCalls == 1
\* number of documents loaded
MaxLoads == 1
\* most points of a stroke drawn with the mouse
MaxPoints == 2
\* most characters of a working text
MaxText == 2
\* strokes that one frame of the SpawnBrushStrokes command adds (50 in input.rs)
SpawnCount == 1

MaxVersion == 2 * MaxReuse + 1

----------------------------------------------------------------------------
(* Small helpers *)

Last(s) == s[Len(s)]
Front(s) == SubSeq(s, 1, Len(s) - 1)
None == [none |-> TRUE]

----------------------------------------------------------------------------
(* Entity contents *)

\* Stroke { points, color, brush_size }; the first is the stroke of the unit test,
\* the second a line of two points
StrokeContents ==
    { [points |-> <<>>, brush_size |-> 10],
      [points |-> <<[x |-> 0, y |-> 0], [x |-> 10, y |-> 0]>>, brush_size |-> 10] }

\* Text { content, position, size, color }; the first is the text of the unit test
TextContents ==
    { [content |-> "Stuff", position |-> None, size |-> 20],
      [content |-> "a", position |-> None, size |-> 50] }

----------------------------------------------------------------------------
(* slotmap::SlotMap, as used for the four arenas *)

Vacant == [vacant |-> TRUE]

Key(idx, version) == [idx |-> idx, version |-> version]

\* SlotMap::new() / SlotMap::with_key(): no slot but the sentinel, free_head = 1
EmptyMap == [slots |-> <<>>, free_head |-> 1]

\* variant: lookup by slot index alone, whatever the version of the key
ContainsKeyByIndex(m, key) ==
    /\ key.idx \in 1..Len(m.slots)
    /\ m.slots[key.idx].version % 2 = 1

\* SlotMap::contains_key: the slot exists and its version is the key's
ContainsKey(m, key) ==
    /\ key.idx \in 1..Len(m.slots)
    /\ m.slots[key.idx].version = key.version

\* SlotMap::get
Get(m, key) == IF ContainsKey(m, key) THEN m.slots[key.idx].value ELSE None

\* SlotMap::len
MapLen(m) == Cardinality({i \in 1..Len(m.slots) : m.slots[i].version % 2 = 1})

\* SlotMap::keys, in iteration (slot) order
MapKeys(m) == {Key(i, m.slots[i].version) : i \in {j \in 1..Len(m.slots) : m.slots[j].version % 2 = 1}}

\* SlotMap::values
MapValues(m) == {m.slots[i].value : i \in {j \in 1..Len(m.slots) : m.slots[j].version % 2 = 1}}

\* slot.version | 1
OccupiedVersion(v) == IF v % 2 = 0 THEN v + 1 ELSE v

\* variant: an arena without generations, a reused slot gets its previous key again
InsertSameVersion(m, value) ==
    IF m.free_head <= Len(m.slots)
    THEN LET idx == m.free_head
             slot == m.slots[idx]
             ver == slot.version - 1
         IN [map |-> [slots |-> [m.slots EXCEPT ![idx] =
                                   [version |-> ver, value |-> value, next_free |-> 0]],
                      free_head |-> slot.next_free],
             key |-> Key(idx, ver)]
    ELSE LET idx == Len(m.slots) + 1
         IN [map |-> [slots |-> Append(m.slots,
                                   [version |-> 1, value |-> value, next_free |-> 0]),
                      free_head |-> idx + 1],
             key |-> Key(idx, 1)]

\* SlotMap::insert: reuse the head of the free list, else push a slot of version 1
Insert(m, value) ==
    IF m.free_head <= Len(m.slots)
    THEN LET idx == m.free_head
             slot == m.slots[idx]
             ver == OccupiedVersion(slot.version)
         IN [map |-> [slots |-> [m.slots EXCEPT ![idx] =
                                   [version |-> ver, value |-> value, next_free |-> 0]],
                      free_head |-> slot.next_free],
             key |-> Key(idx, ver)]
    ELSE LET idx == Len(m.slots) + 1
         IN [map |-> [slots |-> Append(m.slots,
                                   [version |-> 1, value |-> value, next_free |-> 0]),
                      free_head |-> idx + 1],
             key |-> Key(idx, 1)]

\* variant: remove takes whatever occupies the slot, whatever the version of the key
RemoveAnyVersion(m, key) ==
    IF key.idx \in 1..Len(m.slots) /\ m.slots[key.idx].version % 2 = 1
    THEN [map |-> [slots |-> [m.slots EXCEPT ![key.idx] =
                                [version |-> @.version + 1,
                                 value |-> Vacant,
                                 next_free |-> m.free_head]],
                   free_head |-> key.idx],
          value |-> m.slots[key.idx].value]
    ELSE [map |-> m, value |-> None]

\* SlotMap::remove: bump the version, push the slot on the free list.  The bump is
\* a u32 wrapping_add; a version needs 2^31 reuses of its slot to wrap, which is
\* beyond MaxReuse (and beyond the integers of the model checker).
Remove(m, key) ==
    IF ContainsKey(m, key)
    THEN [map |-> [slots |-> [m.slots EXCEPT ![key.idx] =
                                [version |-> @.version + 1,
                                 value |-> Vacant,
                                 next_free |-> m.free_head]],
                   free_head |-> key.idx],
          value |-> m.slots[key.idx].value]
    ELSE [map |-> m, value |-> None]

----------------------------------------------------------------------------
(* Action (app.rs) *)

AddStroke(key) == [kind |-> "AddStroke", key |-> key]
RemoveStroke(key) == [kind |-> "RemoveStroke", key |-> key]
AddText(key) == [kind |-> "AddText", key |-> key]
RemoveText(key) == [kind |-> "RemoveText", key |-> key]

----------------------------------------------------------------------------
(* State (state.rs): the store-relevant fields, and the fields that serde skips *)

DefaultState ==
    [strokes |-> EmptyMap,
     undo_actions |-> <<>>,
     redo_actions |-> <<>>,
     stroke_graveyard |-> EmptyMap,
     text |-> EmptyMap,
     text_graveyard |-> EmptyMap,
     output_path |-> None,
     mode |-> "UsingTool(Brush)",
     is_recording_inputs |-> FALSE,
     is_playing_inputs |-> FALSE]

\* Each primitive returns the new store and the key it returns (None for Option::None)

add_stroke(st, stroke) ==
    LET r == Insert(st.strokes, stroke)
    IN [st |-> [st EXCEPT !.strokes = r.map], key |-> r.key]

add_stroke_to_graveyard(st, stroke) ==
    LET r == Insert(st.stroke_graveyard, stroke)
    IN [st |-> [st EXCEPT !.stroke_graveyard = r.map], key |-> r.key]

\* variant: remove_stroke unwraps what the live arena returns
remove_stroke_unwrap(st, key) ==
    LET r == Remove(st.strokes, key)
    IN add_stroke_to_graveyard([st EXCEPT !.strokes = r.map], r.value)

remove_stroke(st, key) ==
    LET r == Remove(st.strokes, key)
    IN IF r.value # None
       THEN add_stroke_to_graveyard([st EXCEPT !.strokes = r.map], r.value)
       ELSE [st |-> st, key |-> None]

\* variant: restore_stroke reads the graveyard entry without removing it
restore_stroke_copy(st, key) ==
    IF ContainsKey(st.stroke_graveyard, key)
    THEN add_stroke(st, Get(st.stroke_graveyard, key))
    ELSE [st |-> st, key |-> None]

restore_stroke(st, key) ==
    LET r == Remove(st.stroke_graveyard, key)
    IN IF r.value # None
       THEN add_stroke([st EXCEPT !.stroke_graveyard = r.map], r.value)
       ELSE [st |-> st, key |-> None]

add_text(st, text) ==
    LET r == Insert(st.text, text)
    IN [st |-> [st EXCEPT !.text = r.map], key |-> r.key]

add_text_to_graveyard(st, text) ==
    LET r == Insert(st.text_graveyard, text)
    IN [st |-> [st EXCEPT !.text_graveyard = r.map], key |-> r.key]

restore_text(st, key) ==
    LET r == Remove(st.text_graveyard, key)
    IN IF r.value # None
       THEN add_text([st EXCEPT !.text_graveyard = r.map], r.value)
       ELSE [st |-> st, key |-> None]

\* variant: remove_text drops the text instead of moving it to the graveyard
remove_text_drop(st, key) ==
    LET r == Remove(st.text, key)
    IN IF r.value # None
       THEN [st |-> [st EXCEPT !.text = r.map], key |-> key]
       ELSE [st |-> st, key |-> None]

remove_text(st, key) ==
    LET r == Remove(st.text, key)
    IN IF r.value # None
       THEN add_text_to_graveyard([st EXCEPT !.text = r.map], r.value)
       ELSE [st |-> st, key |-> None]

\* variant: a new stroke clears the redo stack
add_stroke_with_undo_clears_redo(st, stroke) ==
    LET r == add_stroke(st, stroke)
    IN [r.st EXCEPT !.undo_actions = Append(@, AddStroke(r.key)),
                    !.redo_actions = <<>>]

add_stroke_with_undo(st, stroke) ==
    LET r == add_stroke(st, stroke)
    IN [r.st EXCEPT !.undo_actions = Append(@, AddStroke(r.key))]

\* variant: the text is logged with the stroke action
add_text_with_undo_logs_stroke(st, text) ==
    LET r == add_text(st, text)
    IN [r.st EXCEPT !.undo_actions = Append(@, AddStroke(r.key))]

add_text_with_undo(st, text) ==
    LET r == add_text(st, text)
    IN [r.st EXCEPT !.undo_actions = Append(@, AddText(r.key))]

\* variant: the AddStroke arm of undo() calls the text primitive
UndoPrimitiveCrossed(st, action) ==
    CASE action.kind = "AddStroke" -> remove_text(st, action.key)
      [] action.kind = "RemoveStroke" -> restore_stroke(st, action.key)
      [] action.kind = "AddText" -> remove_text(st, action.key)
      [] action.kind = "RemoveText" -> restore_text(st, action.key)

\* the primitive undo() applies to a popped action
UndoPrimitive(st, action) ==
    CASE action.kind = "AddStroke" -> remove_stroke(st, action.key)
      [] action.kind = "RemoveStroke" -> restore_stroke(st, action.key)
      [] action.kind = "AddText" -> remove_text(st, action.key)
      [] action.kind = "RemoveText" -> restore_text(st, action.key)

\* the primitive redo() applies to a popped action
RedoPrimitive(st, action) ==
    CASE action.kind = "AddStroke" -> restore_stroke(st, action.key)
      [] action.kind = "RemoveStroke" -> remove_stroke(st, action.key)
      [] action.kind = "AddText" -> restore_text(st, action.key)
      [] action.kind = "RemoveText" -> remove_text(st, action.key)

\* variant: undo() on an empty undo_actions forgets the redo log
RECURSIVE undo_clears_redo(_)
undo_clears_redo(st) ==
    IF st.undo_actions # <<>>
    THEN LET action == Last(st.undo_actions)
             popped == [st EXCEPT !.undo_actions = Front(@)]
             r == UndoPrimitive(popped, action)
         IN IF r.key # None
            THEN [r.st EXCEPT !.redo_actions =
                                 Append(@, [kind |-> action.kind, key |-> r.key])]
            ELSE undo_clears_redo(r.st)
    ELSE [st EXCEPT !.redo_actions = <<>>]

\* variant: undo() without the `break` after a successful reversal
RECURSIVE undo_no_break(_)
undo_no_break(st) ==
    IF st.undo_actions # <<>>
    THEN LET action == Last(st.undo_actions)
             popped == [st EXCEPT !.undo_actions = Front(@)]
             r == UndoPrimitive(popped, action)
         IN IF r.key # None
            THEN undo_no_break([r.st EXCEPT !.redo_actions =
                                 Append(@, [kind |-> action.kind, key |-> r.key])])
            ELSE undo_no_break(r.st)
    ELSE st

\* variant: undo() without the retry: it gives up at the first stale entry
undo_no_retry(st) ==
    IF st.undo_actions # <<>>
    THEN LET action == Last(st.undo_actions)
             popped == [st EXCEPT !.undo_actions = Front(@)]
             r == UndoPrimitive(popped, action)
         IN IF r.key # None
            THEN [r.st EXCEPT !.redo_actions =
                                 Append(@, [kind |-> action.kind, key |-> r.key])]
            ELSE r.st
    ELSE st

\* variant: undo() pushes the popped action itself, with the key that is now stale
RECURSIVE undo_old_key(_)
undo_old_key(st) ==
    IF st.undo_actions # <<>>
    THEN LET action == Last(st.undo_actions)
             popped == [st EXCEPT !.undo_actions = Front(@)]
             r == UndoPrimitive(popped, action)
         IN IF r.key # None
            THEN [r.st EXCEPT !.redo_actions = Append(@, action)]
            ELSE undo_old_key(r.st)
    ELSE st

\* variant: undo() pushes the entry of the opposite kind (Remove* for Add*)
RECURSIVE undo_pushes_inverse(_)
undo_pushes_inverse(st) ==
    IF st.undo_actions # <<>>
    THEN LET action == Last(st.undo_actions)
             popped == [st EXCEPT !.undo_actions = Front(@)]
             r == UndoPrimitive(popped, action)
             inverse == CASE action.kind = "AddStroke" -> "RemoveStroke"
                          [] action.kind = "RemoveStroke" -> "AddStroke"
                          [] action.kind = "AddText" -> "RemoveText"
                          [] action.kind = "RemoveText" -> "AddText"
         IN IF r.key # None
            THEN [r.st EXCEPT !.redo_actions = Append(@, [kind |-> inverse, key |-> r.key])]
            ELSE undo_pushes_inverse(r.st)
    ELSE st

RECURSIVE undo(_)
undo(st) ==
    IF st.undo_actions # <<>>
    THEN LET action == Last(st.undo_actions)
             popped == [st EXCEPT !.undo_actions = Front(@)]
             r == UndoPrimitive(popped, action)
         IN IF r.key # None
            THEN [r.st EXCEPT !.redo_actions =
                                 Append(@, [kind |-> action.kind, key |-> r.key])]
            ELSE undo(r.st)
    ELSE st

\* variant: redo() puts the stale entries back when no entry could be redone
RECURSIVE redo_keeps_stale(_)
redo_keeps_stale(st) ==
    IF st.redo_actions # <<>>
    THEN LET action == Last(st.redo_actions)
             popped == [st EXCEPT !.redo_actions = Front(@)]
             r == RedoPrimitive(popped, action)
         IN IF r.key # None
            THEN [r.st EXCEPT !.undo_actions =
                                 Append(@, [kind |-> action.kind, key |-> r.key])]
            ELSE LET rest == redo_keeps_stale(r.st)
                 IN IF rest.undo_actions = r.st.undo_actions THEN st ELSE rest
    ELSE st

\* variant: redo() applies the primitives of undo() (remove for Add*, restore for Remove*)
RECURSIVE redo_unmirrored(_)
redo_unmirrored(st) ==
    IF st.redo_actions # <<>>
    THEN LET action == Last(st.redo_actions)
             popped == [st EXCEPT !.redo_actions = Front(@)]
             r == UndoPrimitive(popped, action)
         IN IF r.key # None
            THEN [r.st EXCEPT !.undo_actions =
                                 Append(@, [kind |-> action.kind, key |-> r.key])]
            ELSE redo_unmirrored(r.st)
    ELSE st

RECURSIVE redo(_)
redo(st) ==
    IF st.redo_actions # <<>>
    THEN LET action == Last(st.redo_actions)
             popped == [st EXCEPT !.redo_actions = Front(@)]
             r == RedoPrimitive(popped, action)
         IN IF r.key # None
            THEN [r.st EXCEPT !.undo_actions =
                                 Append(@, [kind |-> action.kind, key |-> r.key])]
            ELSE redo(r.st)
    ELSE st

\* variant: a pass of undo() that looks at the top entry and pops it only when its
\* reversal succeeds
undo_iteration_peek(st) ==
    IF st.undo_actions # <<>>
    THEN LET action == Last(st.undo_actions)
             popped == [st EXCEPT !.undo_actions = Front(@)]
             r == UndoPrimitive(popped, action)
         IN IF r.key # None
            THEN [st |-> [r.st EXCEPT !.redo_actions =
                                         Append(@, [kind |-> action.kind, key |-> r.key])],
                  popped |-> TRUE, done |-> TRUE]
            ELSE [st |-> st, popped |-> FALSE, done |-> FALSE]
    ELSE [st |-> st, popped |-> FALSE, done |-> TRUE]

\* one pass through the body of the loop of undo(): the store it leaves, whether it
\* popped an entry, and whether it left the loop (a `break`)
undo_iteration(st) ==
    IF st.undo_actions # <<>>
    THEN LET action == Last(st.undo_actions)
             popped == [st EXCEPT !.undo_actions = Front(@)]
             r == UndoPrimitive(popped, action)
         IN IF r.key # None
            THEN [st |-> [r.st EXCEPT !.redo_actions =
                                         Append(@, [kind |-> action.kind, key |-> r.key])],
                  popped |-> TRUE, done |-> TRUE]
            ELSE [st |-> r.st, popped |-> TRUE, done |-> FALSE]
    ELSE [st |-> st, popped |-> FALSE, done |-> TRUE]

\* one pass through the body of the loop of redo()
redo_iteration(st) ==
    IF st.redo_actions # <<>>
    THEN LET action == Last(st.redo_actions)
             popped == [st EXCEPT !.redo_actions = Front(@)]
             r == RedoPrimitive(popped, action)
         IN IF r.key # None
            THEN [st |-> [r.st EXCEPT !.undo_actions =
                                         Append(@, [kind |-> action.kind, key |-> r.key])],
                  popped |-> TRUE, done |-> TRUE]
            ELSE [st |-> r.st, popped |-> TRUE, done |-> FALSE]
    ELSE [st |-> st, popped |-> FALSE, done |-> TRUE]

\* raylib check_collision_circles: the circles collide when the distance of their
\* centers is at most the sum of their radii.  It is called with the radii
\* brush_size / 2; the model passes the brush sizes and compares four times the
\* squared distance with the square of their sum, which keeps the halves exact.
check_collision_circles(center1, brush_size1, center2, brush_size2) ==
    LET dx == center2.x - center1.x
        dy == center2.y - center1.y
    IN 4 * (dx * dx + dy * dy) <= (brush_size1 + brush_size2) * (brush_size1 + brush_size2)

\* variant: the inner loop of strokes_within_point without its `break`
RECURSIVE PointsLoopNoBreak(_, _, _, _, _)
PointsLoopNoBreak(k, stroke, points, mouse_point, brush_size) ==
    IF points = <<>>
    THEN <<>>
    ELSE (IF check_collision_circles(Head(points), stroke.brush_size, mouse_point, brush_size)
          THEN <<k>>
          ELSE <<>>) \o PointsLoopNoBreak(k, stroke, Tail(points), mouse_point, brush_size)

\* the inner loop of strokes_within_point, over the points of one stroke: the key is
\* pushed at the first point that collides, and the loop is left
RECURSIVE PointsLoop(_, _, _, _, _)
PointsLoop(k, stroke, points, mouse_point, brush_size) ==
    IF points = <<>>
    THEN <<>>
    ELSE IF check_collision_circles(Head(points), stroke.brush_size, mouse_point, brush_size)
         THEN <<k>>
         ELSE PointsLoop(k, stroke, Tail(points), mouse_point, brush_size)

\* the outer loop of strokes_within_point, over the occupied slots from slot i on
RECURSIVE StrokesLoop(_, _, _, _)
StrokesLoop(m, i, mouse_point, brush_size) ==
    IF i > Len(m.slots)
    THEN <<>>
    ELSE (IF m.slots[i].version % 2 = 1
          THEN PointsLoop(Key(i, m.slots[i].version), m.slots[i].value.content,
                          m.slots[i].value.content.points, mouse_point, brush_size)
          ELSE <<>>) \o StrokesLoop(m, i + 1, mouse_point, brush_size)

strokes_within_point(st, mouse_point, brush_size) ==
    StrokesLoop(st.strokes, 1, mouse_point, brush_size)

\* variant: delete_strokes gives up at the first key that is not live
RECURSIVE delete_strokes_stops(_, _)
delete_strokes_stops(st, stroke_keys) ==
    IF stroke_keys = <<>>
    THEN st
    ELSE LET r == remove_stroke(st, Head(stroke_keys))
         IN IF r.key # None
            THEN delete_strokes_stops(
                     [r.st EXCEPT !.undo_actions = Append(@, RemoveStroke(r.key))],
                     Tail(stroke_keys))
            ELSE r.st

\* variant: delete_strokes logs the key it was given, not the graveyard key
RECURSIVE delete_strokes_old_key(_, _)
delete_strokes_old_key(st, stroke_keys) ==
    IF stroke_keys = <<>>
    THEN st
    ELSE LET r == remove_stroke(st, Head(stroke_keys))
             next == IF r.key # None
                     THEN [r.st EXCEPT !.undo_actions =
                                          Append(@, RemoveStroke(Head(stroke_keys)))]
                     ELSE r.st
         IN delete_strokes_old_key(next, Tail(stroke_keys))

\* variant: delete_strokes logs one batched entry, for the last stroke it removed
RECURSIVE delete_strokes_batched(_, _)
delete_strokes_batched(st, stroke_keys) ==
    IF stroke_keys = <<>>
    THEN st
    ELSE LET r == remove_stroke(st, Head(stroke_keys))
             rest == Tail(stroke_keys)
             last == \A i \in 1..Len(rest) : ~ContainsKey(r.st.strokes, rest[i])
             next == IF r.key # None /\ last
                     THEN [r.st EXCEPT !.undo_actions = Append(@, RemoveStroke(r.key))]
                     ELSE r.st
         IN delete_strokes_batched(next, rest)

RECURSIVE delete_strokes(_, _)
delete_strokes(st, stroke_keys) ==
    IF stroke_keys = <<>>
    THEN st
    ELSE LET r == remove_stroke(st, Head(stroke_keys))
             next == IF r.key # None
                     THEN [r.st EXCEPT !.undo_actions = Append(@, RemoveStroke(r.key))]
                     ELSE r.st
         IN delete_strokes(next, Tail(stroke_keys))

----------------------------------------------------------------------------
(* History: the trailing operations, each with the store it was applied to *)

\* operation sequences the history keeps in full; any other operation is
\* remembered only while it is the most recent one
Tracked ==
    { <<"add_stroke_with_undo", "undo", "redo">>,
      <<"add_text_with_undo", "undo", "redo">>,
      <<"delete_strokes", "undo", "undo", "undo">>,
      <<"erase", "erase">>,
      <<"add_stroke_with_undo", "delete_strokes", "undo", "undo">>,
      <<"undo", "redo">>,
      <<"redo", "undo">>,
      <<"add_stroke_with_undo", "undo", "add_stroke_with_undo", "redo">>,
      <<"add_text_with_undo", "undo", "add_text_with_undo", "redo">> }

OpsOf(h) == [i \in 1..Len(h) |-> h[i].op]

IsTrackedPrefix(names) ==
    \E p \in Tracked : Len(names) <= Len(p) /\ SubSeq(p, 1, Len(names)) = names

Suffix(h, n) == SubSeq(h, Len(h) - n + 1, Len(h))

\* the longest suffix of h that begins a tracked sequence, at least the last entry
Record(h, e) ==
    LET full == Append(h, e)
        fits == {n \in 1..Len(full) : n = 1 \/ IsTrackedPrefix(OpsOf(Suffix(full, n)))}
        n == CHOOSE k \in fits : \A j \in fits : j <= k
    IN Suffix(full, n)

----------------------------------------------------------------------------
(* The state machine: one action per public operation of State *)

SlotsInBounds(m) == \A i \in 1..Len(m.slots) : m.slots[i].version <= MaxVersion + 1

InBounds(st) ==
    /\ SlotsInBounds(st.strokes) /\ SlotsInBounds(st.stroke_graveyard)
    /\ SlotsInBounds(st.text) /\ SlotsInBounds(st.text_graveyard)
    /\ Len(st.undo_actions) <= MaxLog
    /\ Len(st.redo_actions) <= MaxLog

\* keys the arena has issued: the live ones and the stale ones (an older version
\* of a slot)
IssuedKeys(m) ==
    UNION {{Key(i, v) : v \in {w \in 1..m.slots[i].version : w % 2 = 1}} : i \in 1..Len(m.slots)}

\* keys a caller may hold for an arena: those, and one that was never issued
KeysFor(m) == IssuedKeys(m) \cup {Key(Len(m.slots) + 1, 1)}

KeyLists(m) == UNION {[1..n -> IssuedKeys(m)] : n \in 0..MaxKeys}

Arenas(st) == <<st.strokes, st.stroke_graveyard, st.text, st.text_graveyard>>

\* the keys of arena n whose slot is not as it is in arena m
KeysChanged(m, n) ==
    IF m = n
    THEN {}
    ELSE {Key(i, n.slots[i].version) :
             i \in {j \in 1..Len(n.slots) :
                       /\ n.slots[j].version % 2 = 1
                       /\ (j > Len(m.slots) \/ m.slots[j] # n.slots[j])}}

\* the keys an operation made the arenas issue, each with its arena and the entity
\* it was issued for
IssuedBy(pre, post) ==
    UNION {{<<i, k, Get(Arenas(post)[i], k)>> : k \in KeysChanged(Arenas(pre)[i], Arenas(post)[i])} :
             i \in 1..4}

\* the keys an operation used up, each with its arena: a removal succeeded with them
ConsumedBy(pre, post) ==
    UNION {{<<i, k>> : k \in KeysChanged(Arenas(post)[i], Arenas(pre)[i])} : i \in 1..4}

----------------------------------------------------------------------------
(* persistence.rs *)

\* what load(&path) returns for a file that cannot be read or parsed
Err == [err |-> TRUE]

\* a file chosen in the dialog, with what load(&path) gives for it
Picked(loaded) == [path |-> "drawing.json", loaded |-> loaded]

\* variant: the loaded store is installed as it was read, output_path included
load_with_file_picker_keeps_path(st, picked) ==
    IF picked # None
    THEN IF picked.loaded # Err THEN picked.loaded ELSE st
    ELSE st

\* load_with_file_picker: `picked` is the answer of the file dialog, None when it
\* was cancelled, and `picked.loaded` what load(&path) gives for the file, Err or
\* the State that serde read.  Only a file picked and read changes the state:
\* *state = loaded_state; state.output_path = None
load_with_file_picker(st, picked) ==
    IF picked # None
    THEN IF picked.loaded # Err
         THEN [picked.loaded EXCEPT !.output_path = None]
         ELSE st
    ELSE st

\* variant: save_with_file_picker notes the chosen path before it saves
save_with_file_picker_eager(st, picked) ==
    IF picked # None
    THEN [st EXCEPT !.output_path = [some |-> picked.path]]
    ELSE st

\* save_with_file_picker: `picked` is the answer of the save dialog, None when
\* it was cancelled, and `picked.ok` whether save(state, &path) succeeded; only
\* then state.output_path = Some(path)
save_with_file_picker(st, picked) ==
    IF picked # None
    THEN IF picked.ok
         THEN [st EXCEPT !.output_path = [some |-> picked.path]]
         ELSE st
    ELSE st

----------------------------------------------------------------------------
(* The frame loop of run (app.rs) with the key handlers of input.rs *)

\* default_keymap().on_press, in the order of the vector
on_press ==
    << [keys |-> <<"KEY_M">>, command |-> "ToggleDebugging"],
       [keys |-> <<"KEY_S", "KEY_LEFT_CONTROL">>, command |-> "Save"],
       [keys |-> <<"KEY_S", "KEY_LEFT_CONTROL", "KEY_LEFT_ALT">>, command |-> "SaveAs"],
       [keys |-> <<"KEY_O", "KEY_LEFT_CONTROL">>, command |-> "Load"],
       [keys |-> <<"KEY_Z">>, command |-> "Undo"],
       [keys |-> <<"KEY_R">>, command |-> "Redo"],
       [keys |-> <<"KEY_E">>, command |-> "ChangeBrushType(Deleting)"],
       [keys |-> <<"KEY_Q">>, command |-> "ChangeBrushType(Drawing)"],
       [keys |-> <<"KEY_T">>, command |-> "UseTextTool"],
       [keys |-> <<"KEY_B">>, command |-> "PickBackgroundColor"],
       [keys |-> <<"KEY_SLASH">>, command |-> "ToggleKeymapWindow"],
       [keys |-> <<"KEY_C">>, command |-> "UseColorPicker"],
       [keys |-> <<"KEY_V">>, command |-> "ToggleRecording"],
       [keys |-> <<"KEY_APOSTROPHE">>, command |-> "LoadAndPlayRecordedInputs"] >>

PressCommands == {on_press[i].command : i \in DOMAIN on_press}

\* the entry of on_press for a command
Binding(command) == CHOOSE e \in {on_press[i] : i \in DOMAIN on_press} : e.command = command

\* rl.is_key_down holds of every key of the combination
AllKeysDown(keys, down) == \A i \in DOMAIN keys : keys[i] \in down

\* Stroke::new(color, brush_size)
NewWorkingStroke(brush_size) == [points |-> <<>>, brush_size |-> brush_size]

\* the local variables of run that live across frames, as they are before the
\* first frame; raylib_left_down is the state of the left button that raylib
\* keeps from the frame before (is_mouse_button_pressed compares with it)
DefaultLocals ==
    [brush |-> [brush_type |-> "Drawing", brush_size |-> 10],
     is_drawing |-> FALSE,
     working_stroke |-> NewWorkingStroke(10),
     working_text |-> None,
     color_picker_info |-> None,
     processed_press_commands |-> [command \in PressCommands |-> FALSE],
     mouse_buttons_pressed_last_frame |-> FALSE,
     raylib_left_down |-> FALSE,
     debugging |-> FALSE]

\* what one frame reads: the keys that are down, the buttons, the mouse position,
\* whether the mouse is over the open picker or panel, the character raylib has
\* queued, whether the deletion delay has passed, the answers of the file dialogs
\* (`picked` as for load_with_file_picker, `save_picked` as for
\* save_with_file_picker), the number of events in the recording file, and
\* whether the event played in this frame is the last of the replay
NoInput ==
    [keys |-> {}, left |-> FALSE, right |-> FALSE,
     drawing_pos |-> [x |-> 0, y |-> 0], on_gui |-> FALSE,
     char_pressed |-> None, deletion_due |-> FALSE,
     picked |-> None, save_picked |-> None,
     recorded_events |-> 0, replay_ends |-> FALSE]

\* the running frame: the State, the locals, the ghost counters and registers,
\* the flags that live for one frame, and the ghost record of what the frame ran
\* (the handlers called, the press commands executed, the mode after the match)
World(st, l, n, o, c) ==
    [state |-> st, locals |-> l, issued |-> n, owner |-> o, consumed |-> c,
     color_picker_closed_this_frame |-> FALSE,
     mouse_buttons_pressed_this_frame |-> FALSE,
     ran |-> [handlers |-> <<>>, commands |-> <<>>, mode |-> st.mode,
              commits |-> 0, loads |-> 0]]

\* a call of a State method in the frame: the store changes, the registers follow
Stored(w, st) ==
    [w EXCEPT !.state = st,
              !.owner = @ \cup IssuedBy(w.state, st),
              !.consumed = @ \cup ConsumedBy(w.state, st)]

\* is_mouse_button_down(LEFT, &mut mouse_buttons_pressed_this_frame) was called
LeftDownAsked(w, inp) ==
    [w EXCEPT !.mouse_buttons_pressed_this_frame = @ \/ inp.left]

\* is_mouse_button_pressed(LEFT): down now and up in the frame before
LeftPressed(w, inp) == inp.left /\ ~w.locals.raylib_left_down

\* is_mouse_button_pressed(LEFT, &mut mouse_buttons_pressed_this_frame) was called
LeftPressedAsked(w, inp) ==
    [w EXCEPT !.mouse_buttons_pressed_this_frame = @ \/ LeftPressed(w, inp)]

\* close_color_picker
close_color_picker(w) ==
    [w EXCEPT !.locals.color_picker_info = None,
              !.color_picker_closed_this_frame = TRUE]

\* the color picker activate check, before the match
PickerActivate(w, inp) ==
    IF /\ w.state.mode \in {"UsingTool(Brush)", "UsingTool(Text)", "TypingText"}
       /\ inp.right
    THEN [w EXCEPT !.locals.color_picker_info = [some |-> inp.drawing_pos]]
    ELSE w

\* the color picker closer check, before the match
PickerClose(w, inp) ==
    IF w.locals.color_picker_info # None /\ ~inp.on_gui
    THEN IF inp.left
         THEN close_color_picker(LeftDownAsked(w, inp))
         ELSE w
    ELSE w

PickerChecks(w, inp) == PickerClose(PickerActivate(w, inp), inp)

\* the Brush arm while the left button is down and no picker is open: the eraser
\* deletes the strokes under the brush, the pen extends the working stroke
BrushDown(w, inp) ==
    IF w.locals.brush.brush_type = "Deleting"
    THEN Stored(w, delete_strokes(w.state,
                     strokes_within_point(w.state, inp.drawing_pos,
                                          w.locals.brush.brush_size)))
    ELSE [w EXCEPT
             !.locals.working_stroke =
                 [points |-> Append(IF w.locals.is_drawing THEN @.points ELSE <<>>,
                                    inp.drawing_pos),
                  brush_size |-> IF w.locals.is_drawing
                                 THEN @.brush_size
                                 ELSE w.locals.brush.brush_size],
             !.locals.is_drawing = TRUE]

\* the Brush arm when the left button was released: the working stroke is added
BrushReleased(w) ==
    IF w.locals.is_drawing
    THEN [Stored(w, add_stroke_with_undo(w.state,
                     [id |-> w.issued.strokes + 1,
                      content |-> w.locals.working_stroke]))
          EXCEPT !.issued.strokes = @ + 1,
                 !.locals.working_stroke = NewWorkingStroke(w.locals.brush.brush_size),
                 !.locals.is_drawing = FALSE]
    ELSE w

\* was_mouse_button_released(LEFT, &mouse_buttons_pressed_last_frame)
BrushUp(w, inp) ==
    IF ~inp.left /\ w.locals.mouse_buttons_pressed_last_frame
    THEN BrushReleased(w)
    ELSE w

\* Mode::UsingTool(Tool::Brush)
BrushArm(w, inp) ==
    LeftDownAsked(
        BrushUp(IF inp.left /\ w.locals.color_picker_info = None
                THEN BrushDown(w, inp)
                ELSE w,
                inp),
        inp)

\* Mode::UsingTool(Tool::Text)
TextArm(w, inp) ==
    LeftDownAsked(
        IF /\ inp.left
           /\ w.locals.color_picker_info = None
           /\ ~w.color_picker_closed_this_frame
        THEN [w EXCEPT
                 !.locals.working_text =
                     IF @ = None
                     THEN [content |-> <<>>,
                           position |-> [some |-> inp.drawing_pos],
                           size |-> 50]
                     ELSE @,
                 !.state.mode = "TypingText"]
        ELSE w,
        inp)

\* Mode::UsingTool(Tool::ColorPicker)
ColorPickerArm(w, inp) ==
    LeftDownAsked(IF inp.left THEN [w EXCEPT !.state.mode = "UsingTool(Brush)"] ELSE w,
                  inp)

\* Mode::PickingBackgroundColor
PickingBackgroundColorArm(w, inp) ==
    LeftPressedAsked(IF LeftPressed(w, inp) /\ ~inp.on_gui
                     THEN [w EXCEPT !.state.mode = "UsingTool(Brush)"]
                     ELSE w,
                     inp)

\* Mode::ShowingKeymapPanel
ShowingKeymapPanelArm(w, inp) ==
    LeftPressedAsked(IF LeftPressed(w, inp) /\ ~inp.on_gui
                     THEN [w EXCEPT !.state.mode = "UsingTool(Brush)"]
                     ELSE w,
                     inp)

\* append_input_to_working_text (input.rs): a working text is created when there
\* is none, without a position, and the character is pushed
append_input_to_working_text(ch, working_text) ==
    LET text == IF working_text = None
                THEN [content |-> <<>>, position |-> None, size |-> 50]
                ELSE working_text
    IN [text EXCEPT !.content = Append(@, ch)]

\* the Enter block of Mode::TypingText, its first part: a working text that is
\* present and not empty is added
CommitText(w) ==
    IF w.locals.working_text # None
    THEN IF w.locals.working_text.content # <<>>
         THEN [Stored(w, add_text_with_undo(w.state,
                          [id |-> w.issued.text + 1,
                           content |-> w.locals.working_text]))
               EXCEPT !.issued.text = @ + 1,
                      !.ran.commits = @ + 1]
         ELSE w
    ELSE w

\* the Enter block of Mode::TypingText
EnterBlock(w, inp) ==
    IF "KEY_ENTER" \in inp.keys
    THEN close_color_picker([CommitText(w) EXCEPT !.locals.working_text = None,
                                                 !.state.mode = "UsingTool(Brush)"])
    ELSE w

\* the Backspace block of Mode::TypingText
BackspaceBlock(w, inp) ==
    IF "KEY_BACKSPACE" \in inp.keys /\ inp.deletion_due
    THEN [w EXCEPT !.locals.working_text =
                      IF @ # None /\ @.content # <<>>
                      THEN [@ EXCEPT !.content = Front(@)]
                      ELSE @]
    ELSE w

\* the character block of Mode::TypingText
CharBlock(w, inp) ==
    IF inp.char_pressed # None
    THEN [w EXCEPT !.locals.working_text =
                      append_input_to_working_text(inp.char_pressed.some, @)]
    ELSE w

\* Mode::TypingText: Backspace, then Enter, then the character pressed
TypingTextArm(w, inp) == CharBlock(EnterBlock(BackspaceBlock(w, inp), inp), inp)

\* match state.mode
ModeHandling(w, inp) ==
    CASE w.state.mode = "UsingTool(Brush)" -> BrushArm(w, inp)
      [] w.state.mode = "UsingTool(Text)" -> TextArm(w, inp)
      [] w.state.mode = "UsingTool(ColorPicker)" -> ColorPickerArm(w, inp)
      [] w.state.mode = "PickingBackgroundColor" -> PickingBackgroundColorArm(w, inp)
      [] w.state.mode = "TypingText" -> TypingTextArm(w, inp)
      [] w.state.mode = "ShowingKeymapPanel" -> ShowingKeymapPanelArm(w, inp)

\* the store of a frame is the State `st` that a load has read: the ghost
\* counters and registers start again from that document
Loaded(w, st) ==
    [w EXCEPT !.state = st,
              !.owner = IssuedBy(DefaultState, st),
              !.consumed = {},
              !.issued = [@ EXCEPT
                             !.strokes = MapLen(st.strokes) + MapLen(st.stroke_graveyard),
                             !.text = MapLen(st.text) + MapLen(st.text_graveyard),
                             !.loads = @ + 1],
              !.ran.loads = @ + 1]

\* the Load arm
LoadCommand(w, inp) ==
    IF inp.picked # None /\ inp.picked.loaded # Err
    THEN Loaded(w, load_with_file_picker(w.state, inp.picked))
    ELSE [w EXCEPT !.state = load_with_file_picker(@, inp.picked)]

\* variant: ToggleRecording starts a recording during a replay as well
ToggleRecordingWhilePlaying(st) == [st EXCEPT !.is_recording_inputs = ~@]

\* the ToggleRecording arm
ToggleRecording(st) ==
    IF st.is_playing_inputs
    THEN st
    ELSE [st EXCEPT !.is_recording_inputs = ~@]

\* the LoadAndPlayRecordedInputs arm; `count` is the number of events read from
\* the recording file
LoadAndPlayRecordedInputs(st, count) ==
    IF st.is_recording_inputs
    THEN st
    ELSE IF count = 0
         THEN st
         ELSE [st EXCEPT !.is_playing_inputs = TRUE]

\* play_replay (replay.rs)
play_replay(st) == [st EXCEPT !.is_playing_inputs = TRUE]

\* stop_replay: the end of a replay
stop_replay(st) == [st EXCEPT !.is_playing_inputs = FALSE]

\* the match on the press command
PressCommand(w, command, inp) ==
    CASE command = "ToggleDebugging" -> [w EXCEPT !.locals.debugging = ~@]
      [] command = "Save" ->
             IF w.state.output_path # None
             THEN w
             ELSE [w EXCEPT !.state = save_with_file_picker(@, inp.save_picked)]
      [] command = "SaveAs" ->
             [w EXCEPT !.state = save_with_file_picker(@, inp.save_picked)]
      [] command = "Load" -> LoadCommand(w, inp)
      [] command = "Undo" -> Stored(w, undo(w.state))
      [] command = "Redo" -> Stored(w, redo(w.state))
      [] command = "ChangeBrushType(Deleting)" ->
             [w EXCEPT !.state.mode = "UsingTool(Brush)",
                       !.locals.brush.brush_type = "Deleting"]
      [] command = "ChangeBrushType(Drawing)" ->
             [w EXCEPT !.state.mode = "UsingTool(Brush)",
                       !.locals.brush.brush_type = "Drawing"]
      [] command = "UseTextTool" -> [w EXCEPT !.state.mode = "UsingTool(Text)"]
      [] command = "PickBackgroundColor" ->
             [w EXCEPT !.state.mode = "PickingBackgroundColor"]
      [] command = "UseColorPicker" -> [w EXCEPT !.state.mode = "UsingTool(ColorPicker)"]
      [] command = "ToggleKeymapWindow" ->
             [w EXCEPT !.state.mode = IF @ = "ShowingKeymapPanel"
                                      THEN "UsingTool(Brush)"
                                      ELSE "ShowingKeymapPanel"]
      [] command = "ToggleRecording" -> [w EXCEPT !.state = ToggleRecording(@)]
      [] command = "LoadAndPlayRecordedInputs" ->
             [w EXCEPT !.state = LoadAndPlayRecordedInputs(@, inp.recorded_events)]

\* variant: the processed flag of a command is not set when it executes
PressExecuteUnflagged(w, e, inp) ==
    IF /\ AllKeysDown(e.keys, inp.keys)
       /\ ~w.locals.processed_press_commands[e.command]
    THEN PressCommand([w EXCEPT !.ran.commands = Append(@, e.command)],
                      e.command, inp)
    ELSE w

\* the body of the loop after the key check: the command executes when all its
\* keys are down and it is not flagged as processed
PressExecute(w, e, inp) ==
    IF /\ AllKeysDown(e.keys, inp.keys)
       /\ ~w.locals.processed_press_commands[e.command]
    THEN PressCommand([w EXCEPT !.locals.processed_press_commands[e.command] = TRUE,
                                !.ran.commands = Append(@, e.command)],
                      e.command, inp)
    ELSE w

\* the key check of the loop: a key of the combination that is up clears the flag
PressEntry(w, e, inp) ==
    PressExecute(IF AllKeysDown(e.keys, inp.keys)
                 THEN w
                 ELSE [w EXCEPT !.locals.processed_press_commands[e.command] = FALSE],
                 e, inp)

\* the loop of process_key_pressed_events over keymap.on_press, from entry i
RECURSIVE PressLoop(_, _, _)
PressLoop(w, i, inp) ==
    IF i > Len(on_press)
    THEN w
    ELSE PressLoop(PressEntry(w, on_press[i], inp), i + 1, inp)

process_key_pressed_events(w, inp) ==
    PressLoop([w EXCEPT !.ran.handlers = Append(@, "process_key_pressed_events")],
              1, inp)

\* the SpawnBrushStrokes arm adds SpawnCount generated strokes
RECURSIVE SpawnBrushStrokes(_, _)
SpawnBrushStrokes(w, n) ==
    IF n = 0
    THEN w
    ELSE SpawnBrushStrokes(
             [Stored(w, add_stroke_with_undo(w.state,
                         [id |-> w.issued.strokes + 1,
                          content |-> [points |-> <<[x |-> 0, y |-> 0], [x |-> 10, y |-> 0]>>,
                                       brush_size |-> 10]]))
              EXCEPT !.issued.strokes = @ + 1],
             n - 1)

\* process_key_down_events: of the hold commands, SpawnBrushStrokes (KEY_H) alone
\* touches the store; the others move the camera and size the brush and the text
process_key_down_events(w, inp) ==
    IF "KEY_H" \in inp.keys
    THEN SpawnBrushStrokes(
             [w EXCEPT !.ran.handlers = Append(@, "process_key_down_events")],
             SpawnCount)
    ELSE [w EXCEPT !.ran.handlers = Append(@, "process_key_down_events")]

\* variant: the key handlers run in every mode
KeyEventsUngated(w, inp) ==
    process_key_down_events(process_key_pressed_events(w, inp), inp)

\* if state.mode != Mode::TypingText { ... }
KeyEvents(w, inp) ==
    IF w.state.mode # "TypingText"
    THEN process_key_down_events(process_key_pressed_events(w, inp), inp)
    ELSE w

\* the playback block: the replay stops with its last event
Playback(w, inp) ==
    IF w.state.is_playing_inputs /\ inp.replay_ends
    THEN [w EXCEPT !.state = stop_replay(@)]
    ELSE w

\* the ghost record notes the mode that the mode handling has left
ModeHandled(w) == [w EXCEPT !.ran.mode = w.state.mode]

\* the end of the frame: the mouse buttons of this frame become those of the last
EndFrame(w, inp) ==
    [w EXCEPT !.locals.mouse_buttons_pressed_last_frame =
                  w.mouse_buttons_pressed_this_frame,
              !.locals.raylib_left_down = inp.left]

\* one iteration of the loop of run
RunFrame(w, inp) ==
    EndFrame(
        Playback(
            KeyEvents(ModeHandled(ModeHandling(PickerChecks(w, inp), inp)), inp),
            inp),
        inp)

----------------------------------------------------------------------------
(* The actions *)

\* no call of undo() or redo() is under way
Idle == [pc |-> "idle", pops |-> 0, start |-> DefaultState]

Applied(op, arg, st, ret) ==
    /\ loop.pc = "idle"
    /\ loop' = Idle
    /\ InBounds(st)
    /\ state' = st
    /\ hist' = Record(hist, [op |-> op, arg |-> arg, pre |-> state, ret |-> ret])
    /\ UNCHANGED <<locals, held>>

Step(op, arg, st, ret) ==
    /\ Applied(op, arg, st, ret)
    /\ owner' = owner \cup IssuedBy(state, state')
    /\ consumed' = consumed \cup ConsumedBy(state, state')

NewStroke(c) == [id |-> issued.strokes + 1, content |-> c]
NewText(c) == [id |-> issued.text + 1, content |-> c]

Init ==
    /\ state = DefaultState
    /\ issued = [strokes |-> 0, text |-> 0, calls |-> 0, loads |-> 0]
    /\ hist = <<>>
    /\ owner = {}
    /\ consumed = {}
    /\ loop = Idle
    /\ locals = DefaultLocals
    /\ held = [command \in PressCommands |-> 0]

AddStrokeWithUndo ==
    \E c \in StrokeContents :
        /\ issued.strokes + issued.text < MaxEntities
        /\ Step("add_stroke_with_undo", NewStroke(c),
                add_stroke_with_undo(state, NewStroke(c)), None)
        /\ issued' = [issued EXCEPT !.strokes = @ + 1]

AddTextWithUndo ==
    \E c \in TextContents :
        /\ issued.strokes + issued.text < MaxEntities
        /\ Step("add_text_with_undo", NewText(c),
                add_text_with_undo(state, NewText(c)), None)
        /\ issued' = [issued EXCEPT !.text = @ + 1]

Undo ==
    /\ Step("undo", None, undo(state), None)
    /\ UNCHANGED issued

Redo ==
    /\ Step("redo", None, redo(state), None)
    /\ UNCHANGED issued

DeleteStrokes ==
    \E keys \in KeyLists(state.strokes) :
        /\ Step("delete_strokes", keys, delete_strokes(state, keys), None)
        /\ UNCHANGED issued

\* a direct call of a primitive: `call` names it, r is what it returns
Call(call, arg, r) ==
    /\ issued.calls < MaxCalls
    /\ Step(call, arg, r.st, r.key)

CallAddStroke ==
    \E c \in StrokeContents :
        /\ issued.strokes + issued.text < MaxEntities
        /\ Call("add_stroke", NewStroke(c), add_stroke(state, NewStroke(c)))
        /\ issued' = [issued EXCEPT !.strokes = @ + 1, !.calls = @ + 1]

CallRemoveStroke ==
    \E key \in KeysFor(state.strokes) :
        /\ Call("remove_stroke", key, remove_stroke(state, key))
        /\ issued' = [issued EXCEPT !.calls = @ + 1]

CallRestoreStroke ==
    \E key \in KeysFor(state.stroke_graveyard) :
        /\ Call("restore_stroke", key, restore_stroke(state, key))
        /\ issued' = [issued EXCEPT !.calls = @ + 1]

CallAddText ==
    \E c \in TextContents :
        /\ issued.strokes + issued.text < MaxEntities
        /\ Call("add_text", NewText(c), add_text(state, NewText(c)))
        /\ issued' = [issued EXCEPT !.text = @ + 1, !.calls = @ + 1]

CallRemoveText ==
    \E key \in KeysFor(state.text) :
        /\ Call("remove_text", key, remove_text(state, key))
        /\ issued' = [issued EXCEPT !.calls = @ + 1]

CallRestoreText ==
    \E key \in KeysFor(state.text_graveyard) :
        /\ Call("restore_text", key, restore_text(state, key))
        /\ issued' = [issued EXCEPT !.calls = @ + 1]

\* Documents a load may read.  serde accepts any well-formed State, whoever wrote
\* it; these two hold what no run from the empty store produces, a RemoveText
\* entry: one for a text that lies in the graveyard, one for a text that is live.
\* The second was written by a save under a chosen path and carries it as its
\* output_path.  The texts read by the load after n earlier ones are none of the
\* store's before it (id 0 - n).
Documents(n) ==
    { [DefaultState EXCEPT
          !.text_graveyard = Insert(EmptyMap, [id |-> 0 - n, content |->
                                 [content |-> "Stuff", position |-> None, size |-> 20]]).map,
          !.undo_actions = <<RemoveText(Key(1, 1))>>],
      [DefaultState EXCEPT
          !.text = Insert(EmptyMap, [id |-> 0 - n, content |->
                                 [content |-> "Stuff", position |-> None, size |-> 20]]).map,
          !.redo_actions = <<RemoveText(Key(1, 1))>>,
          !.output_path = [some |-> "drawing.json"]] }

\* the Load command, a file picked and read
Load ==
    \E doc \in Documents(issued.loads) :
        /\ issued.loads < MaxLoads
        /\ Applied("load", doc, load_with_file_picker(state, Picked(doc)), None)
        /\ owner' = IssuedBy(DefaultState, state')
        /\ consumed' = {}
        /\ issued' = [issued EXCEPT
                         !.strokes = MapLen(doc.strokes) + MapLen(doc.stroke_graveyard),
                         !.text = MapLen(doc.text) + MapLen(doc.text_graveyard),
                         !.loads = @ + 1]

\* the queries of the eraser: over both points of the line, on the boundary of its
\* second point, just beyond it, and beyond it with a brush that reaches it
Queries ==
    { [mouse_point |-> [x |-> 5, y |-> 0], brush_size |-> 10],
      [mouse_point |-> [x |-> 20, y |-> 0], brush_size |-> 10],
      [mouse_point |-> [x |-> 21, y |-> 0], brush_size |-> 10],
      [mouse_point |-> [x |-> 21, y |-> 0], brush_size |-> 12] }

\* the eraser at a position (app.rs): the strokes under the brush are deleted
Erase ==
    \E q \in Queries :
        LET keys == strokes_within_point(state, q.mouse_point, q.brush_size)
        IN /\ Step("erase", q, delete_strokes(state, keys), keys)
           /\ UNCHANGED issued

\* the operations the tool and input layers call (app.rs, input.rs)
Next ==
    \/ AddStrokeWithUndo
    \/ AddTextWithUndo
    \/ Undo
    \/ Redo
    \/ DeleteStrokes

Spec == Init /\ [][Next]_vars

\* the same, with direct calls of the public primitives of State
NextCalls ==
    \/ AddStrokeWithUndo
    \/ AddTextWithUndo
    \/ Undo
    \/ Redo
    \/ Erase
    \/ CallAddStroke
    \/ CallRemoveStroke
    \/ CallRestoreStroke
    \/ CallAddText
    \/ CallRemoveText
    \/ CallRestoreText

SpecCalls == Init /\ [][NextCalls]_vars

\* the operations of the tool and input layers, with the Load command
NextLoad ==
    \/ AddStrokeWithUndo
    \/ AddTextWithUndo
    \/ Undo
    \/ Redo
    \/ DeleteStrokes
    \/ Load

SpecLoad == Init /\ [][NextLoad]_vars

\* one pass through the loop of the call that `l` follows; the pass that leaves the
\* loop returns, and the call enters the history
Pass(l, it) ==
    /\ state' = it.st
    /\ loop' = [l EXCEPT !.pc = IF it.done THEN "idle" ELSE @,
                         !.pops = IF it.popped THEN @ + 1 ELSE @]
    /\ hist' = IF it.done
               THEN Record(hist, [op |-> l.pc, arg |-> None, pre |-> l.start, ret |-> None])
               ELSE hist
    /\ owner' = owner \cup IssuedBy(state, state')
    /\ consumed' = consumed \cup ConsumedBy(state, state')
    /\ UNCHANGED <<issued, locals, held>>

StrokesWithinPoint ==
    \E q \in Queries :
        /\ Call("strokes_within_point", q,
                [st |-> state,
                 key |-> strokes_within_point(state, q.mouse_point, q.brush_size)])
        /\ issued' = [issued EXCEPT !.calls = @ + 1]

\* the operations of the tool and input layers, with the query of the eraser
NextQuery ==
    \/ AddStrokeWithUndo
    \/ AddTextWithUndo
    \/ Undo
    \/ Redo
    \/ DeleteStrokes
    \/ StrokesWithinPoint

SpecQuery == Init /\ [][NextQuery]_vars

\* undo() is called: the loop is entered and passed through once
BeginUndo ==
    /\ loop.pc = "idle"
    /\ InBounds(undo(state))
    /\ Pass([pc |-> "undo", pops |-> 0, start |-> state], undo_iteration(state))

\* redo() is called: the loop is entered and passed through once
BeginRedo ==
    /\ loop.pc = "idle"
    /\ InBounds(redo(state))
    /\ Pass([pc |-> "redo", pops |-> 0, start |-> state], redo_iteration(state))

\* the next pass of an undo() under way
IterateUndo ==
    /\ loop.pc = "undo"
    /\ Pass(loop, undo_iteration(state))

\* the next pass of a redo() under way
IterateRedo ==
    /\ loop.pc = "redo"
    /\ Pass(loop, redo_iteration(state))

\* the operations of the tool and input layers, undo() and redo() pass by pass
NextSteps ==
    \/ AddStrokeWithUndo
    \/ AddTextWithUndo
    \/ DeleteStrokes
    \/ BeginUndo
    \/ BeginRedo
    \/ IterateUndo
    \/ IterateRedo

\* a call that has begun runs on: the store is used by one thread, and undo() and
\* redo() have no suspension point
SpecSteps ==
    Init /\ [][NextSteps]_vars /\ WF_vars(IterateUndo) /\ WF_vars(IterateRedo)

\* the step of a frame that ends as the world `w`
FrameEnds(w, inp) ==
    /\ loop.pc = "idle"
    /\ loop' = Idle
    /\ InBounds(w.state)
    /\ w.issued.strokes + w.issued.text <= MaxEntities
    /\ w.issued.loads <= MaxLoads
    /\ Len(w.locals.working_stroke.points) <= MaxPoints
    /\ w.locals.working_text # None => Len(w.locals.working_text.content) <= MaxText
    /\ state' = w.state
    /\ locals' = w.locals
    /\ issued' = w.issued
    /\ owner' = w.owner
    /\ consumed' = w.consumed
    /\ hist' = Record(hist, [op |-> "frame", arg |-> inp, pre |-> state,
                             ret |-> w.ran, locals |-> locals])
    /\ held' = [command \in PressCommands |->
                   IF AllKeysDown(Binding(command).keys, inp.keys)
                   THEN IF \E i \in DOMAIN w.ran.commands : w.ran.commands[i] = command
                        THEN held[command] + 1
                        ELSE held[command]
                   ELSE 0]

\* one frame of the loop of run on the input `inp`; the history keeps the frame
\* with the State and the locals it started from and with what it ran, and
\* `held` counts the executions of a command while its keys stay down
Frame(inp) == FrameEnds(RunFrame(World(state, locals, issued, owner, consumed), inp), inp)

\* a frame with these keys down, the left button down or up, and a character queued
\* or none
Input(keys, left, ch) ==
    [NoInput EXCEPT !.keys = keys, !.left = left, !.char_pressed = ch]

\* the frames of a user who types: nothing pressed, a click, a character, the key of
\* the text tool, the keys of Undo and of the brush spawner (alone and while a
\* character arrives), and Enter (alone, with a character, with the Undo key)
TypingInputs ==
    { Input({}, FALSE, None),
      Input({}, TRUE, None),
      Input({}, FALSE, [some |-> "a"]),
      Input({"KEY_T"}, FALSE, None),
      Input({"KEY_Z", "KEY_H"}, FALSE, None),
      Input({"KEY_Z", "KEY_H"}, FALSE, [some |-> "a"]),
      Input({"KEY_ENTER"}, FALSE, None),
      Input({"KEY_ENTER"}, FALSE, [some |-> "a"]),
      Input({"KEY_ENTER", "KEY_Z"}, FALSE, None) }

TypingFrame == \E inp \in TypingInputs : Frame(inp)

NextTyping == TypingFrame

SpecTyping == Init /\ [][NextTyping]_vars

\* the frames of a user who holds keys: nothing pressed, a click, the key of the
\* brush spawner, the keys of Undo and Redo, the Undo key together with the key of
\* the text tool, and Enter with and without the Undo key
HoldInputs ==
    { Input({}, FALSE, None),
      Input({}, TRUE, None),
      Input({"KEY_H"}, FALSE, None),
      Input({"KEY_Z"}, FALSE, None),
      Input({"KEY_R"}, FALSE, None),
      Input({"KEY_Z", "KEY_T"}, FALSE, None),
      Input({"KEY_Z"}, TRUE, None),
      Input({"KEY_ENTER"}, FALSE, None),
      Input({"KEY_ENTER", "KEY_Z"}, FALSE, None) }

HoldFrame == \E inp \in HoldInputs : Frame(inp)

NextKeys == HoldFrame

SpecKeys == Init /\ [][NextKeys]_vars

\* run with and without a replay given on the command line: play_replay is called
\* before the first frame
InitRun ==
    /\ state \in {DefaultState, play_replay(DefaultState)}
    /\ issued = [strokes |-> 0, text |-> 0, calls |-> 0, loads |-> 0]
    /\ hist = <<>>
    /\ owner = {}
    /\ consumed = {}
    /\ loop = Idle
    /\ locals = DefaultLocals
    /\ held = [command \in PressCommands |-> 0]

\* the answers of the load dialog: cancelled, a file that cannot be read, a document
Picks == {None, Picked(Err)} \cup {Picked(doc) : doc \in Documents(issued.loads)}

\* a frame with these keys down, the recording file holding n events, and the
\* replay at its last event or not
ReplayInput(keys, n, ends) ==
    [NoInput EXCEPT !.keys = keys, !.recorded_events = n, !.replay_ends = ends]

\* the frames of recording and replay: nothing pressed (the replay going on or
\* ending), the key of ToggleRecording, the key of LoadAndPlayRecordedInputs with
\* the recording file empty and not, both keys, the key of the brush spawner, and
\* the keys of Load with each answer of the dialog
ReplayInputs ==
    { ReplayInput({}, 0, FALSE),
      ReplayInput({}, 0, TRUE),
      ReplayInput({"KEY_V"}, 0, FALSE),
      ReplayInput({"KEY_V"}, 0, TRUE),
      ReplayInput({"KEY_APOSTROPHE"}, 0, FALSE),
      ReplayInput({"KEY_APOSTROPHE"}, 1, FALSE),
      ReplayInput({"KEY_V", "KEY_APOSTROPHE"}, 1, FALSE),
      ReplayInput({"KEY_H"}, 0, FALSE) }
    \cup { [ReplayInput({"KEY_O", "KEY_LEFT_CONTROL"}, 0, FALSE) EXCEPT !.picked = picked]
             : picked \in Picks }

ReplayFrame == \E inp \in ReplayInputs : Frame(inp)

NextReplay == ReplayFrame

SpecReplay == InitRun /\ [][NextReplay]_vars

\* the answers of the save dialog: cancelled, a path whose save fails, a path saved
SavePicks ==
    {None, [path |-> "saved.json", ok |-> FALSE], [path |-> "saved.json", ok |-> TRUE]}

\* a frame with these keys down and these answers of the two dialogs
FileInput(keys, picked, save_picked) ==
    [NoInput EXCEPT !.keys = keys, !.picked = picked, !.save_picked = save_picked]

\* the frames of saving and loading: nothing pressed, the keys of the brush spawner
\* and of Undo, the keys of Load with each answer of the load dialog, and the keys
\* of Save and of SaveAs with each answer of the save dialog
FileInputs ==
    { FileInput({}, None, None),
      FileInput({"KEY_H"}, None, None),
      FileInput({"KEY_Z"}, None, None) }
    \cup { FileInput({"KEY_O", "KEY_LEFT_CONTROL"}, picked, None) : picked \in Picks }
    \cup { FileInput({"KEY_S", "KEY_LEFT_CONTROL"}, None, answer) : answer \in SavePicks }
    \cup { FileInput({"KEY_S", "KEY_LEFT_CONTROL", "KEY_LEFT_ALT"}, None, answer)
             : answer \in SavePicks }

FileFrame == \E inp \in FileInputs : Frame(inp)

NextFiles == FileFrame

SpecFiles == Init /\ [][NextFiles]_vars

----------------------------------------------------------------------------
(* Vocabulary of the properties *)

\* the operation names at the end of the history
Ends(ops) == Len(hist) >= Len(ops) /\ OpsOf(Suffix(hist, Len(ops))) = ops

\* the k-th operation from the end of the history (0 = the most recent one)
Rec(k) == hist[Len(hist) - k]

\* the store right after that operation
PostOf(k) == IF k = 0 THEN state ELSE hist[Len(hist) - k + 1].pre

\* number of slots of the arena m that hold the entity e
CountIn(m, e) ==
    Cardinality({i \in 1..Len(m.slots) : m.slots[i].version % 2 = 1 /\ m.slots[i].value = e})


Entities(st) ==
    MapValues(st.strokes) \cup MapValues(st.stroke_graveyard)
        \cup MapValues(st.text) \cup MapValues(st.text_graveyard)

\* how often e is held by each of the four arenas
Place(st, e) == [i \in 1..4 |-> CountIn(Arenas(st)[i], e)]

\* the entities that are not in the same arena in st and in st2
Moved(st, st2) == {e \in Entities(st) \cup Entities(st2) : Place(st, e) # Place(st2, e)}

IsPrefix(s, t) == Len(s) <= Len(t) /\ SubSeq(t, 1, Len(s)) = s

\* the arena a reversal looks in and the arena it moves the entity to:
\* 1 strokes, 2 stroke_graveyard, 3 text, 4 text_graveyard
LooksIn(dir, kind) ==
    CASE kind = "AddStroke" -> IF dir = "undo" THEN 1 ELSE 2
      [] kind = "RemoveStroke" -> IF dir = "undo" THEN 2 ELSE 1
      [] kind = "AddText" -> IF dir = "undo" THEN 3 ELSE 4
      [] kind = "RemoveText" -> IF dir = "undo" THEN 4 ELSE 3

MovesTo(dir, kind) == LooksIn(IF dir = "undo" THEN "redo" ELSE "undo", kind)

\* the log entry resolves in the arena its reversal in direction dir looks in
Resolves(st, dir, action) == ContainsKey(Arenas(st)[LooksIn(dir, action.kind)], action.key)

----------------------------------------------------------------------------
(* Properties *)

\* C1: add_stroke_with_undo(s), undo(), redo(), from any reachable store: after the
\* undo() s is in the stroke graveyard and not live; after the redo() s is live
\* exactly once and not in the graveyard, and both stroke counts are again what they
\* were right after the add (from the empty store: 1 and 0, and 0 and 1 in between).
RoundTripStroke ==
    /\ Ends(<<"add_stroke_with_undo", "undo">>) =>
          LET s == Rec(1).arg
          IN /\ CountIn(state.strokes, s) = 0
             /\ CountIn(state.stroke_graveyard, s) = 1
             /\ Rec(1).pre = DefaultState =>
                   MapLen(state.strokes) = 0 /\ MapLen(state.stroke_graveyard) = 1
    /\ Ends(<<"add_stroke_with_undo", "undo", "redo">>) =>
          LET s == Rec(2).arg
              added == PostOf(2)
              undone == PostOf(1)
          IN /\ CountIn(undone.strokes, s) = 0
             /\ CountIn(undone.stroke_graveyard, s) = 1
             /\ CountIn(state.strokes, s) = 1
             /\ CountIn(state.stroke_graveyard, s) = 0
             /\ MapLen(state.strokes) = MapLen(added.strokes)
             /\ MapLen(state.stroke_graveyard) = MapLen(added.stroke_graveyard)
             /\ Rec(2).pre = DefaultState =>
                   MapLen(state.strokes) = 1 /\ MapLen(state.stroke_graveyard) = 0

\* the round trip has run on a store that already held another live stroke, and
\* the redo() put s back into a slot of the live arena that had been used before
RoundTripStrokeReached ==
    /\ Ends(<<"add_stroke_with_undo", "undo", "redo">>)
    /\ MapLen(Rec(2).pre.strokes) = 1
    /\ MapLen(PostOf(1).stroke_graveyard) = 1
    /\ CountIn(state.strokes, Rec(2).arg) = 1
    /\ MapLen(state.strokes) = 2
    /\ \E k \in MapKeys(state.strokes) : k.version > 1

\* C2: the same round trip for a text: add_text_with_undo(t), undo(), redo().
RoundTripText ==
    /\ Ends(<<"add_text_with_undo", "undo">>) =>
          LET t == Rec(1).arg
          IN /\ CountIn(state.text, t) = 0
             /\ CountIn(state.text_graveyard, t) = 1
             /\ Rec(1).pre = DefaultState =>
                   MapLen(state.text) = 0 /\ MapLen(state.text_graveyard) = 1
    /\ Ends(<<"add_text_with_undo", "undo", "redo">>) =>
          LET t == Rec(2).arg
              added == PostOf(2)
              undone == PostOf(1)
          IN /\ CountIn(undone.text, t) = 0
             /\ CountIn(undone.text_graveyard, t) = 1
             /\ CountIn(state.text, t) = 1
             /\ CountIn(state.text_graveyard, t) = 0
             /\ MapLen(state.text) = MapLen(added.text)
             /\ MapLen(state.text_graveyard) = MapLen(added.text_graveyard)
             /\ Rec(2).pre = DefaultState =>
                   MapLen(state.text) = 1 /\ MapLen(state.text_graveyard) = 0

\* the text round trip has run on a store that already held another live text
RoundTripTextReached ==
    /\ Ends(<<"add_text_with_undo", "undo", "redo">>)
    /\ MapLen(Rec(2).pre.text) = 1
    /\ MapLen(PostOf(1).text_graveyard) = 1
    /\ CountIn(state.text, Rec(2).arg) = 1
    /\ MapLen(state.text) = 2
    /\ \E k \in MapKeys(state.text) : k.version > 1

\* C3: undo() on an empty undo_actions, and redo() on an empty redo_actions, leave
\* the four arenas and both stacks as they were, whatever the other stack holds.
EmptyUndoRedoIsNoOp ==
    /\ Ends(<<"undo">>) /\ Rec(0).pre.undo_actions = <<>> => state = Rec(0).pre
    /\ Ends(<<"redo">>) /\ Rec(0).pre.redo_actions = <<>> => state = Rec(0).pre

\* undo() has run on an empty undo_actions while redo_actions held an entry
EmptyUndoReached ==
    /\ Ends(<<"undo">>)
    /\ Rec(0).pre.undo_actions = <<>>
    /\ Rec(0).pre.redo_actions # <<>>
    /\ Entities(state) # {}

\* a two-entry undo log of AddStroke entries: the entry at position `dead` does not
\* resolve in the live arena, the one at position `live` does; redo_actions is empty
TwoAddsOneDead(st, dead, live) ==
    /\ Len(st.undo_actions) = 2
    /\ st.redo_actions = <<>>
    /\ st.undo_actions[1].kind = "AddStroke"
    /\ st.undo_actions[2].kind = "AddStroke"
    /\ ~ContainsKey(st.strokes, st.undo_actions[dead].key)
    /\ ContainsKey(st.strokes, st.undo_actions[live].key)

\* the undo() just made has moved the stroke of the entry at position `live` to the
\* graveyard and left exactly one redo entry, which resolves to that stroke
UndoneTheLiveOne(live) ==
    LET pre == Rec(0).pre
        s == Get(pre.strokes, pre.undo_actions[live].key)
    IN /\ ~ContainsKey(state.strokes, pre.undo_actions[live].key)
       /\ CountIn(state.strokes, s) = 0
       /\ CountIn(state.stroke_graveyard, s) = 1
       /\ Len(state.redo_actions) = 1
       /\ state.redo_actions[1].kind = "AddStroke"
       /\ Get(state.stroke_graveyard, state.redo_actions[1].key) = s

\* C4, as stated: with undo_actions = [AddStroke(k1), AddStroke(k2)], k1 dead and k2
\* live, one undo() removes the stroke at k2, leaves one redo entry for it, and
\* discards the dead AddStroke(k1) entry.
SkipAndRetryDiscardsDeadEntry ==
    Ends(<<"undo">>) /\ TwoAddsOneDead(Rec(0).pre, 1, 2) =>
        /\ UndoneTheLiveOne(2)
        /\ \A i \in 1..Len(state.undo_actions) :
               state.undo_actions[i] # Rec(0).pre.undo_actions[1]

\* C4, amended: in that state one undo() removes the stroke at k2 and leaves one redo
\* entry for it, and the dead AddStroke(k1) entry, which lies below AddStroke(k2),
\* stays in undo_actions; the dead entry is discarded by the same call only when it
\* lies above the live one (undo_actions = [AddStroke(k2), AddStroke(k1)]).
SkipAndRetryKeepsEntryBelow ==
    /\ Ends(<<"undo">>) /\ TwoAddsOneDead(Rec(0).pre, 1, 2) =>
          /\ UndoneTheLiveOne(2)
          /\ state.undo_actions = <<Rec(0).pre.undo_actions[1]>>
    /\ Ends(<<"undo">>) /\ TwoAddsOneDead(Rec(0).pre, 2, 1) =>
          /\ UndoneTheLiveOne(1)
          /\ state.undo_actions = <<>>

\* undo() has run on [AddStroke(k1), AddStroke(k2)] after the stroke of k1 was
\* removed by a direct remove_stroke call, which does not touch the log
SkipAndRetryReached ==
    /\ Ends(<<"undo">>)
    /\ TwoAddsOneDead(Rec(0).pre, 1, 2)
    /\ issued.calls = 1
    /\ MapLen(Rec(0).pre.stroke_graveyard) = 1
    /\ MapLen(state.stroke_graveyard) = 2

\* C5: whenever remove_stroke(k) succeeds, k no longer resolves in the live stroke
\* arena and the graveyard key returned is distinct from k.
RemovedKeyIsRenamed ==
    Ends(<<"remove_stroke">>) /\ Rec(0).ret # None =>
        /\ ~ContainsKey(state.strokes, Rec(0).arg)
        /\ Rec(0).ret # Rec(0).arg

\* the keys of the list are live in st and pairwise distinct
DistinctLive(st, keys) ==
    /\ \A i \in 1..Len(keys) : ContainsKey(st.strokes, keys[i])
    /\ \A i, j \in 1..Len(keys) : i # j => keys[i] # keys[j]

\* the strokes a delete_strokes call of the history was given
ErasedBy(r) == {Get(r.pre.strokes, r.arg[i]) : i \in 1..Len(r.arg)}

\* the history ends with delete_strokes on distinct live keys followed by j undo()
ErasedThenUndone(j) ==
    /\ Len(hist) >= j + 1
    /\ Rec(j).op = "delete_strokes"
    /\ \A k \in 0..(j - 1) : Rec(k).op = "undo"
    /\ DistinctLive(Rec(j).pre, Rec(j).arg)

\* C6: delete_strokes on n distinct live keys moves the n strokes to the graveyard
\* and appends n RemoveStroke entries, one per stroke in list order; each of the
\* next n undo() calls restores exactly one of the n strokes, all n after n calls.
BulkEraseGranularity ==
    /\ ErasedThenUndone(0) =>
          LET pre == Rec(0).pre
              keys == Rec(0).arg
              n == Len(keys)
              base == Len(pre.undo_actions)
          IN /\ \A e \in ErasedBy(Rec(0)) :
                    CountIn(state.strokes, e) = 0 /\ CountIn(state.stroke_graveyard, e) = 1
             /\ Len(state.undo_actions) = base + n
             /\ IsPrefix(pre.undo_actions, state.undo_actions)
             /\ \A i \in 1..n :
                    /\ state.undo_actions[base + i].kind = "RemoveStroke"
                    /\ Get(state.stroke_graveyard, state.undo_actions[base + i].key)
                           = Get(pre.strokes, keys[i])
             /\ state.redo_actions = pre.redo_actions
    /\ \A j \in 1..(MaxKeys + 1) :
          ErasedThenUndone(j) /\ j <= Len(Rec(j).arg) =>
              LET erased == ErasedBy(Rec(j))
              IN /\ Moved(Rec(0).pre, state) \subseteq erased
                 /\ Cardinality(Moved(Rec(0).pre, state)) = 1
                 /\ Cardinality({e \in erased : CountIn(state.strokes, e) = 1}) = j
                 /\ \A e \in erased :
                        CountIn(state.strokes, e) + CountIn(state.stroke_graveyard, e) = 1

\* two strokes were erased by one delete_strokes call and both are live again after
\* two undo() calls
BulkEraseReached ==
    /\ ErasedThenUndone(2)
    /\ Len(Rec(2).arg) = 2
    /\ Len(PostOf(2).undo_actions) = Len(Rec(2).pre.undo_actions) + 2
    /\ \A e \in ErasedBy(Rec(2)) : CountIn(state.strokes, e) = 1

\* one entry was pushed on top of the log `before`, giving `after`
PushedOne(before, after) == Len(after) = Len(before) + 1 /\ IsPrefix(before, after)

\* C7: one undo() moves at most one entity between a live arena and its graveyard
\* and pushes at most one entry onto redo_actions, however many entries it pops;
\* one redo() likewise with respect to undo_actions.
AtMostOneReversal ==
    /\ Ends(<<"undo">>) =>
          /\ Cardinality(Moved(Rec(0).pre, state)) <= 1
          /\ \/ state.redo_actions = Rec(0).pre.redo_actions
             \/ PushedOne(Rec(0).pre.redo_actions, state.redo_actions)
    /\ Ends(<<"redo">>) =>
          /\ Cardinality(Moved(Rec(0).pre, state)) <= 1
          /\ \/ state.undo_actions = Rec(0).pre.undo_actions
             \/ PushedOne(Rec(0).pre.undo_actions, state.undo_actions)

\* an undo() popped and discarded a stale entry and then reversed the entry below it
OneReversalAfterSkipReached ==
    /\ Ends(<<"undo">>)
    /\ Len(Rec(0).pre.undo_actions) - Len(state.undo_actions) >= 2
    /\ Cardinality(Moved(Rec(0).pre, state)) = 1
    /\ PushedOne(Rec(0).pre.redo_actions, state.redo_actions)

\* positions of the log whose entry resolves in the arena a reversal looks in
Resolvable(st, dir, log) == {i \in 1..Len(log) : Resolves(st, dir, log[i])}

Max(S) == CHOOSE m \in S : \A i \in S : i <= m

\* the operation from `pre` to the current state has reversed the entry `action` in
\* direction dir and nothing else: its entity went from the arena looked in to the
\* opposite one, every other entity kept its arena and its key
ReversedOnly(pre, dir, action) ==
    LET from == LooksIn(dir, action.kind)
        to == MovesTo(dir, action.kind)
        e == Get(Arenas(pre)[from], action.key)
    IN /\ Moved(pre, state) = {e}
       /\ Place(state, e) = [i \in 1..4 |-> IF i = to THEN 1 ELSE 0]
       /\ MapKeys(Arenas(state)[from]) = MapKeys(Arenas(pre)[from]) \ {action.key}
       /\ \A k \in MapKeys(Arenas(pre)[to]) :
              Get(Arenas(state)[to], k) = Get(Arenas(pre)[to], k)
       /\ \A i \in 1..4 \ {from, to} : Arenas(state)[i] = Arenas(pre)[i]

\* C8: undo() reverses the most recently pushed entry of undo_actions whose key
\* resolves: the entries above it are popped without any arena change, the entries
\* below it stay in place and in order, and exactly that one reversal is made.
UndoReversesLatestResolvable ==
    Ends(<<"undo">>) =>
        LET pre == Rec(0).pre
            log == pre.undo_actions
            R == Resolvable(pre, "undo", log)
        IN IF R # {}
           THEN /\ state.undo_actions = SubSeq(log, 1, Max(R) - 1)
                /\ ReversedOnly(pre, "undo", log[Max(R)])
                /\ PushedOne(pre.redo_actions, state.redo_actions)
           ELSE /\ state.undo_actions = <<>>
                /\ Arenas(state) = Arenas(pre)

\* an undo() skipped a stale entry, reversed the one below and left one in place
UndoSkipReached ==
    /\ Ends(<<"undo">>)
    /\ Len(Rec(0).pre.undo_actions) >= 3
    /\ Len(state.undo_actions) >= 1
    /\ Len(Rec(0).pre.undo_actions) - Len(state.undo_actions) >= 2
    /\ Cardinality(Moved(Rec(0).pre, state)) = 1

\* the entry an undo()/redo() reversed, given the log before and the log it left
ReversedEntry(log, left) == log[Len(left) + 1]

\* C9: when undo() succeeds on a popped entry, the entry it pushes onto redo_actions
\* has the kind of the popped one and the key the primitive returned: after undoing
\* Add* that key resolves in the graveyard to the moved entity, after undoing
\* Remove* it resolves in the live arena to the moved entity.
UndoPushesFreshKey ==
    Ends(<<"undo">>) /\ Len(state.redo_actions) > Len(Rec(0).pre.redo_actions) =>
        LET pre == Rec(0).pre
            action == ReversedEntry(pre.undo_actions, state.undo_actions)
            pushed == Last(state.redo_actions)
            e == Get(Arenas(pre)[LooksIn("undo", action.kind)], action.key)
        IN /\ PushedOne(pre.redo_actions, state.redo_actions)
           /\ pushed.kind = action.kind
           /\ e # None
           /\ Get(Arenas(state)[MovesTo("undo", action.kind)], pushed.key) = e
           /\ Get(Arenas(state)[LooksIn("undo", action.kind)], action.key) = None
           /\ pushed.key = UndoPrimitive(pre, action).key

\* an undo() reversed a RemoveStroke entry and pushed a key other than the popped one
UndoFreshKeyReached ==
    /\ Ends(<<"undo">>)
    /\ PushedOne(Rec(0).pre.redo_actions, state.redo_actions)
    /\ Last(state.redo_actions).kind = "RemoveStroke"
    /\ Last(state.redo_actions).key
           # ReversedEntry(Rec(0).pre.undo_actions, state.undo_actions).key
    /\ ContainsKey(state.strokes, Last(state.redo_actions).key)

\* C10: redo() mirrors undo() on redo_actions: it reverses the most recently pushed
\* entry that resolves (restore_* for Add*, remove_* for Remove*), discards the
\* entries above it, pushes an entry of the same kind with the returned key onto
\* undo_actions and stops; with no resolvable entry it only empties redo_actions.
RedoMirrorsUndo ==
    Ends(<<"redo">>) =>
        LET pre == Rec(0).pre
            log == pre.redo_actions
            R == Resolvable(pre, "redo", log)
        IN IF R # {}
           THEN LET action == log[Max(R)]
                    pushed == Last(state.undo_actions)
                IN /\ state.redo_actions = SubSeq(log, 1, Max(R) - 1)
                   /\ ReversedOnly(pre, "redo", action)
                   /\ PushedOne(pre.undo_actions, state.undo_actions)
                   /\ pushed.kind = action.kind
                   /\ Get(Arenas(state)[MovesTo("redo", action.kind)], pushed.key)
                          = Get(Arenas(pre)[LooksIn("redo", action.kind)], action.key)
           ELSE /\ state.redo_actions = <<>>
                /\ state.undo_actions = pre.undo_actions
                /\ Arenas(state) = Arenas(pre)

\* an undo() has reversed a RemoveText entry (of a loaded document)
UndoOfRemoveTextReached ==
    /\ Ends(<<"undo">>)
    /\ PushedOne(Rec(0).pre.redo_actions, state.redo_actions)
    /\ Last(state.redo_actions).kind = "RemoveText"
    /\ MapLen(state.text) = MapLen(Rec(0).pre.text) + 1

\* a redo() has reversed a RemoveText entry (of a loaded document)
RedoOfRemoveTextReached ==
    /\ Ends(<<"redo">>)
    /\ PushedOne(Rec(0).pre.undo_actions, state.undo_actions)
    /\ Last(state.undo_actions).kind = "RemoveText"
    /\ MapLen(state.text_graveyard) = MapLen(Rec(0).pre.text_graveyard) + 1

\* a redo() skipped a stale entry and redid the entry below it
RedoSkipReached ==
    /\ Ends(<<"redo">>)
    /\ Len(Rec(0).pre.redo_actions) - Len(state.redo_actions) >= 2
    /\ PushedOne(Rec(0).pre.undo_actions, state.undo_actions)
    /\ Cardinality(Moved(Rec(0).pre, state)) = 1

\* the stack an undo()/redo() pops, and the stack it pushes onto
PopsFrom(dir, st) == IF dir = "undo" THEN st.undo_actions ELSE st.redo_actions
PushesOnto(dir, st) == IF dir = "undo" THEN st.redo_actions ELSE st.undo_actions

\* the k-th operation from the end, an undo()/redo() of direction dir, has made a
\* reversal
MadeReversal(dir, k) ==
    PushedOne(PushesOnto(dir, Rec(k).pre), PushesOnto(dir, PostOf(k)))

\* after a `first` that made a reversal the top of the stack it pushed onto
\* resolves; a directly following `back` pops that entry alone, reverses it, and
\* every arena holds the entities it held before `first`
ThereAndBack(first, back) ==
    /\ Ends(<<first>>) /\ MadeReversal(first, 0) =>
           Resolves(state, back, Last(PushesOnto(first, state)))
    /\ Ends(<<first, back>>) /\ MadeReversal(first, 1) =>
           /\ PopsFrom(back, state) = PopsFrom(back, Rec(1).pre)
           /\ MadeReversal(back, 0)
           /\ \A i \in 1..4 :
                  MapValues(Arenas(state)[i]) = MapValues(Arenas(Rec(1).pre)[i])

\* C11: right after an undo() that made a reversal the top of redo_actions
\* resolves, so a directly following redo() succeeds on its first pop and every
\* arena again holds the entities it held before the undo(); the same for an undo()
\* directly after a redo() that made a reversal.
RedoRestoresWhatUndoRemoved ==
    /\ ThereAndBack("undo", "redo")
    /\ ThereAndBack("redo", "undo")

\* an undo() skipped a stale entry and reversed the one below it, and the redo()
\* that followed put the entity back, under a key other than the one it had
RedoAfterSkippingUndoReached ==
    /\ Ends(<<"undo", "redo">>)
    /\ MadeReversal("undo", 1)
    /\ Len(Rec(1).pre.undo_actions) - Len(PostOf(1).undo_actions) >= 2
    /\ Arenas(state) # Arenas(Rec(1).pre)

\* C12 as stated: in every state reachable through add_*_with_undo, delete_strokes,
\* undo and redo, the top entry of undo_actions, and the top entry of redo_actions,
\* holds a key that resolves in the arena its reversal will look in.
TopEntryResolves ==
    /\ state.undo_actions # <<>> => Resolves(state, "undo", Last(state.undo_actions))
    /\ state.redo_actions # <<>> => Resolves(state, "redo", Last(state.redo_actions))

\* C12, amended: an entry at the top of undo_actions or of redo_actions resolves in
\* the arena its reversal will look in when the latest operation pushed it (the
\* stack is longer than before the operation).  A top entry that was not just
\* pushed may be stale.
PushedEntryResolves ==
    hist # <<>> =>
        /\ Len(state.undo_actions) > Len(Rec(0).pre.undo_actions) =>
               Resolves(state, "undo", Last(state.undo_actions))
        /\ Len(state.redo_actions) > Len(Rec(0).pre.redo_actions) =>
               Resolves(state, "redo", Last(state.redo_actions))

\* a delete_strokes has pushed two entries onto undo_actions and the top one
\* resolves, while the top of redo_actions, left as it was, does not
PushedOverStaleReached ==
    /\ Ends(<<"delete_strokes">>)
    /\ Len(state.undo_actions) = Len(Rec(0).pre.undo_actions) + 2
    /\ Resolves(state, "undo", Last(state.undo_actions))
    /\ state.redo_actions # <<>>
    /\ ~Resolves(state, "redo", Last(state.redo_actions))

\* no key arena m has issued resolves in arena n
NoKeyOfResolvesIn(m, n) == \A k \in IssuedKeys(m) : ~ContainsKey(n, k)

\* C13: the live arena and the graveyard of a kind issue keys from independent key
\* spaces: in every reachable state a key returned by an insertion into the live
\* arena does not resolve in the graveyard, and a key returned by an insertion into
\* the graveyard does not resolve in the live arena.
KeySpacesIndependent ==
    /\ NoKeyOfResolvesIn(state.strokes, state.stroke_graveyard)
    /\ NoKeyOfResolvesIn(state.stroke_graveyard, state.strokes)
    /\ NoKeyOfResolvesIn(state.text, state.text_graveyard)
    /\ NoKeyOfResolvesIn(state.text_graveyard, state.text)

\* the key under which arena m holds entity e
KeyOfIn(m, e) == CHOOSE k \in MapKeys(m) : Get(m, k) = e

\* C14: an entity that crosses between a live arena and its graveyard gets a key the
\* destination arena has not issued before, and the key it had in the source arena
\* is invalid from then on: whatever add, remove, restore, delete_strokes, undo and
\* redo operations follow, reuse of the freed slot included, a key that was used up
\* never again resolves in the arena that issued it.
CrossingRetiresKey ==
    /\ \A x \in consumed : ~ContainsKey(Arenas(state)[x[1]], x[2])
    /\ hist # <<>> =>
           LET pre == Rec(0).pre
           IN \A e \in Moved(pre, state) : \A i \in 1..4 :
                  /\ CountIn(Arenas(pre)[i], e) = 0 /\ CountIn(Arenas(state)[i], e) = 1 =>
                         KeyOfIn(Arenas(state)[i], e) \notin IssuedKeys(Arenas(pre)[i])
                  /\ CountIn(Arenas(pre)[i], e) = 1 /\ CountIn(Arenas(state)[i], e) = 0 =>
                         ~ContainsKey(Arenas(state)[i], KeyOfIn(Arenas(pre)[i], e))

\* the slot of a used-up key is occupied again, by an entity that crossed into the
\* arena in the latest operation
RetiredSlotReusedReached ==
    /\ hist # <<>>
    /\ \E x \in consumed : \E e \in Moved(Rec(0).pre, state) :
           /\ CountIn(Arenas(Rec(0).pre)[x[1]], e) = 0
           /\ CountIn(Arenas(state)[x[1]], e) = 1
           /\ KeyOfIn(Arenas(state)[x[1]], e).idx = x[2].idx
           /\ KeyOfIn(Arenas(state)[x[1]], e).version > x[2].version
           /\ Cardinality(Entities(Rec(0).pre)) = Cardinality(Entities(state))

\* the step is an undo() (dir = "undo") or a redo() that made a reversal
ReversalStep(dir) ==
    /\ hist'[Len(hist')].op = dir
    /\ PushedOne(PushesOnto(dir, state), PushesOnto(dir, state'))

\* in a step that is a reversal, the entry reversed leaves its stack, and its key had
\* not been used up in the arena the reversal looks in
FirstUseOfEntry(dir) ==
    ReversalStep(dir) =>
        LET log == PopsFrom(dir, state)
            left == PopsFrom(dir, state')
            action == ReversedEntry(log, left)
        IN /\ Len(left) < Len(log) /\ IsPrefix(left, log)
           /\ <<LooksIn(dir, action.kind), action.key>> \notin consumed

\* C15: a log entry is a one-shot ticket: a successful reversal removes the entry
\* from its stack, and once a key has been used successfully in an arena (by undo,
\* redo or delete_strokes) no later use of that key in that arena succeeds, so no
\* later entry carrying it is reversed.
OneShotTicket ==
    [][/\ FirstUseOfEntry("undo")
       /\ FirstUseOfEntry("redo")
       /\ \A x \in ConsumedBy(state, state') : x \notin consumed]_vars

\* an undo() popped an entry whose key had been used up, without reversing it, and
\* reversed the entry below
UsedTicketRefusedReached ==
    /\ Ends(<<"undo">>)
    /\ MadeReversal("undo", 0)
    /\ Len(state.undo_actions) + 2 <= Len(Rec(0).pre.undo_actions)
    /\ LET top == Last(Rec(0).pre.undo_actions)
       IN /\ <<LooksIn("undo", top.kind), top.key>> \in consumed
          /\ ~Resolves(Rec(0).pre, "undo", top)

\* the entries of both stacks, each with the direction of the operation that would
\* reverse it and its position
Entries(st) ==
    {<<"undo", i>> : i \in 1..Len(st.undo_actions)}
        \cup {<<"redo", i>> : i \in 1..Len(st.redo_actions)}

EntryAt(st, x) == PopsFrom(x[1], st)[x[2]]

\* the entity the entry resolves to, None when it does not resolve
Target(st, x) == Get(Arenas(st)[LooksIn(x[1], EntryAt(st, x).kind)], EntryAt(st, x).key)

\* the entities for which arena i issued key k
OwnersOf(i, k) == {y[3] : y \in {z \in owner : z[1] = i /\ z[2] = k}}

\* an undo()/redo() that made a reversal moved the entity the key of the reversed
\* entry was issued for
MovedTheOwner(dir) ==
    Ends(<<dir>>) /\ MadeReversal(dir, 0) =>
        LET pre == Rec(0).pre
            action == ReversedEntry(PopsFrom(dir, pre), PopsFrom(dir, state))
        IN \E e \in Entities(state) :
               /\ Moved(pre, state) = {e}
               /\ OwnersOf(LooksIn(dir, action.kind), action.key) = {e}

\* C16: in every reachable state no two entries across undo_actions and redo_actions
\* resolve to the same entity, and when undo() or redo() succeeds on an entry the
\* entity it moves is the one the key of the entry was issued for, never another
\* entity that occupies the slot since.
EntriesTargetTheirOwnEntity ==
    /\ \A x, y \in Entries(state) :
           x # y /\ Target(state, x) # None => Target(state, x) # Target(state, y)
    /\ MovedTheOwner("undo")
    /\ MovedTheOwner("redo")

\* an undo() has reversed an entry whose key lies in a reused slot: the arena had
\* issued an older key of that slot for another entity
ReversedInReusedSlotReached ==
    /\ Ends(<<"undo">>)
    /\ MadeReversal("undo", 0)
    /\ LET action == ReversedEntry(Rec(0).pre.undo_actions, state.undo_actions)
           from == LooksIn("undo", action.kind)
       IN \E y \in owner :
              /\ y[1] = from
              /\ y[2].idx = action.key.idx
              /\ y[2].version < action.key.version
              /\ y[3] \in Entities(state) \ Moved(Rec(0).pre, state)

\* the latest operation, the primitive `op` called with a key, returned a key: it
\* moved the entity the key resolved to, unchanged, from arena `from` to arena `to`,
\* and the key returned resolves there to it; nothing else changed
Crossed(op, from, to) ==
    Ends(<<op>>) /\ Rec(0).ret # None =>
        LET pre == Rec(0).pre
            e == Get(Arenas(pre)[from], Rec(0).arg)
        IN /\ e # None
           /\ Moved(pre, state) = {e}
           /\ CountIn(Arenas(state)[from], e) = 0
           /\ Get(Arenas(state)[to], Rec(0).ret) = e
           /\ MapLen(Arenas(state)[from]) = MapLen(Arenas(pre)[from]) - 1
           /\ MapLen(Arenas(state)[to]) = MapLen(Arenas(pre)[to]) + 1
           /\ MapValues(Arenas(state)[from]) = MapValues(Arenas(pre)[from]) \ {e}
           /\ MapValues(Arenas(state)[to]) = MapValues(Arenas(pre)[to]) \cup {e}
           /\ \A i \in 1..4 \ {from, to} : Arenas(state)[i] = Arenas(pre)[i]
           /\ state.undo_actions = pre.undo_actions
           /\ state.redo_actions = pre.redo_actions

\* the number of places, over the four arenas, where e is held
Holders(st, e) == Place(st, e)[1] + Place(st, e)[2] + Place(st, e)[3] + Place(st, e)[4]

\* C17: a successful remove_stroke / remove_text moves exactly one entity, content
\* unchanged, from the live arena to the graveyard (live count - 1, graveyard count
\* + 1) and returns a key that resolves in the graveyard to that entity; a successful
\* restore_stroke / restore_text does the reverse; no entity is ever in both arenas.
PrimitivesMoveOneEntity ==
    /\ Crossed("remove_stroke", 1, 2)
    /\ Crossed("restore_stroke", 2, 1)
    /\ Crossed("remove_text", 3, 4)
    /\ Crossed("restore_text", 4, 3)
    /\ \A e \in Entities(state) : Holders(state, e) = 1

\* a direct restore_text has succeeded while the live text arena held another text
RestoreTextCalledReached ==
    /\ Ends(<<"restore_text">>)
    /\ Rec(0).ret # None
    /\ MapLen(state.text) = 2
    /\ MapLen(state.text_graveyard) = 0

\* the latest operation, the primitive `op`, was called with a key that did not
\* resolve in arena `from`: it returned no key and changed nothing
Refused(op, from) ==
    Ends(<<op>>) /\ ~ContainsKey(Arenas(Rec(0).pre)[from], Rec(0).arg) =>
        /\ Rec(0).ret = None
        /\ state = Rec(0).pre

\* C18: remove_stroke, remove_text, restore_stroke and restore_text, called with a
\* key that does not resolve in the arena they look in (already removed, already
\* restored, or never issued), return no key and leave the four arenas and both
\* stacks unchanged.
UnresolvedKeyIsNoOp ==
    /\ Refused("remove_stroke", 1)
    /\ Refused("restore_stroke", 2)
    /\ Refused("remove_text", 3)
    /\ Refused("restore_text", 4)

\* remove_stroke was called with a stale key whose slot is occupied again, and
\* returned no key
StaleKeyRefusedReached ==
    /\ Ends(<<"remove_stroke">>)
    /\ Rec(0).ret = None
    /\ Rec(0).arg \in IssuedKeys(Rec(0).pre.strokes)
    /\ \E k \in MapKeys(Rec(0).pre.strokes) :
           k.idx = Rec(0).arg.idx /\ k.version > Rec(0).arg.version

\* arenas `live` and `grave` of one kind hold, between them, each of the `count`
\* entities added so far exactly once
HoldAllAdded(live, grave, count) ==
    /\ MapLen(live) + MapLen(grave) = count
    /\ {e.id : e \in MapValues(live) \cup MapValues(grave)} = 1..count

\* C19: entities are never freed.  For each kind, in every state reachable without a
\* load, the live count plus the graveyard count equals the number of add_stroke /
\* add_text calls so far, every entity added is in exactly one of the two arenas of
\* its kind with the content it was added with, and no operation lowers the total.
EntitiesNeverFreed ==
    /\ HoldAllAdded(state.strokes, state.stroke_graveyard, issued.strokes)
    /\ HoldAllAdded(state.text, state.text_graveyard, issued.text)
    /\ \A y \in owner :
           /\ Holders(state, y[3]) = 1
           /\ y[1] \in {1, 2} => Place(state, y[3])[1] + Place(state, y[3])[2] = 1
           /\ y[1] \in {3, 4} => Place(state, y[3])[3] + Place(state, y[3])[4] = 1
    /\ hist # <<>> =>
           /\ MapLen(state.strokes) + MapLen(state.stroke_graveyard)
                  >= MapLen(Rec(0).pre.strokes) + MapLen(Rec(0).pre.stroke_graveyard)
           /\ MapLen(state.text) + MapLen(state.text_graveyard)
                  >= MapLen(Rec(0).pre.text) + MapLen(Rec(0).pre.text_graveyard)

\* a stroke and a text were added, a primitive was called directly, three keys or
\* more have been used up by crossings, and one of the two entities is in its
\* graveyard
AddedEntitiesKeptReached ==
    /\ issued.strokes = 1 /\ issued.text = 1 /\ issued.calls = 1
    /\ Cardinality(consumed) >= 3
    /\ MapLen(state.stroke_graveyard) + MapLen(state.text_graveyard) = 1

\* the latest operation, the forward operation `op`, only pushed onto undo_actions
OnlyPushesUndo(op) ==
    Ends(<<op>>) =>
        /\ state.redo_actions = Rec(0).pre.redo_actions
        /\ IsPrefix(Rec(0).pre.undo_actions, state.undo_actions)

\* add A, undo(), add B, redo() with the add operation `add` on live arena `live`:
\* the undo() buried A, the redo() brought back A and nothing else, A and B are live
RedoSurvivesNewAdd(add, live) ==
    Ends(<<add, "undo", add, "redo">>) =>
        LET A == Rec(3).arg
            B == Rec(1).arg
        IN /\ CountIn(Arenas(PostOf(2))[live], A) = 0
           /\ CountIn(Arenas(PostOf(2))[live + 1], A) = 1
           /\ Moved(Rec(0).pre, state) = {A}
           /\ CountIn(Arenas(state)[live], A) = 1
           /\ CountIn(Arenas(state)[live], B) = 1
           /\ CountIn(Arenas(state)[live + 1], A) = 0

\* C20: add_stroke_with_undo, add_text_with_undo and delete_strokes push only onto
\* undo_actions and never modify redo_actions; so after add A, undo(), add B, a
\* redo() still restores A, and A and B are both live.
ForwardOpsKeepRedo ==
    /\ OnlyPushesUndo("add_stroke_with_undo")
    /\ OnlyPushesUndo("add_text_with_undo")
    /\ OnlyPushesUndo("delete_strokes")
    /\ RedoSurvivesNewAdd("add_stroke_with_undo", 1)
    /\ RedoSurvivesNewAdd("add_text_with_undo", 3)

\* add A, undo(), add B, redo() on strokes: B took the slot A had left, and the
\* redo() brought A back into a second slot
RedoAfterNewAddReached ==
    /\ Ends(<<"add_stroke_with_undo", "undo", "add_stroke_with_undo", "redo">>)
    /\ MapLen(state.strokes) = 2
    /\ KeyOfIn(state.strokes, Rec(1).arg).idx = KeyOfIn(PostOf(3).strokes, Rec(3).arg).idx

\* the positions of the key list whose removal succeeds: the key is live in st and
\* does not occur earlier in the list
Succeeding(st, keys) ==
    {i \in 1..Len(keys) :
        /\ ContainsKey(st.strokes, keys[i])
        /\ \A j \in 1..(i - 1) : keys[j] # keys[i]}

\* C21: delete_strokes(keys) appends to undo_actions exactly one RemoveStroke entry,
\* carrying the new graveyard key, for each key whose removal succeeds, in list
\* order; for a key that is not live at that moment (stale, or repeated in the
\* list) it pushes nothing and changes no arena, and goes on with the rest.
DeleteStrokesLogsEachRemoval ==
    Ends(<<"delete_strokes">>) =>
        LET pre == Rec(0).pre
            keys == Rec(0).arg
            S == Succeeding(pre, keys)
            base == Len(pre.undo_actions)
            erased == {Get(pre.strokes, keys[i]) : i \in S}
        IN /\ Len(state.undo_actions) = base + Cardinality(S)
           /\ IsPrefix(pre.undo_actions, state.undo_actions)
           /\ \A i \in S :
                  LET pushed == state.undo_actions[base + Cardinality({j \in S : j <= i})]
                  IN /\ pushed.kind = "RemoveStroke"
                     /\ Get(state.stroke_graveyard, pushed.key) = Get(pre.strokes, keys[i])
           /\ Moved(pre, state) = erased
           /\ MapKeys(state.strokes) = MapKeys(pre.strokes) \ {keys[i] : i \in S}
           /\ \A k \in MapKeys(state.strokes) : Get(state.strokes, k) = Get(pre.strokes, k)
           /\ \A k \in MapKeys(pre.stroke_graveyard) :
                  Get(state.stroke_graveyard, k) = Get(pre.stroke_graveyard, k)
           /\ MapLen(state.stroke_graveyard) = MapLen(pre.stroke_graveyard) + Cardinality(S)
           /\ state.text = pre.text
           /\ state.text_graveyard = pre.text_graveyard
           /\ state.redo_actions = pre.redo_actions
           /\ S = {} => state = pre

\* delete_strokes was given a stale key and then a live one: it pushed one entry,
\* for the live one
DeleteAfterStaleKeyReached ==
    /\ Ends(<<"delete_strokes">>)
    /\ Len(Rec(0).arg) = 2
    /\ Succeeding(Rec(0).pre, Rec(0).arg) = {2}
    /\ Rec(0).arg[1] # Rec(0).arg[2]
    /\ PushedOne(Rec(0).pre.undo_actions, state.undo_actions)

\* delete_strokes was given the same live key twice: it pushed one entry
DeleteRepeatedKeyReached ==
    /\ Ends(<<"delete_strokes">>)
    /\ Len(Rec(0).arg) = 2
    /\ Rec(0).arg[1] = Rec(0).arg[2]
    /\ PushedOne(Rec(0).pre.undo_actions, state.undo_actions)

\* the latest operation inserted entity `e` into arena `live` under a key the arena
\* issued for it, and left the entities the arena held under their keys; the other
\* three arenas did not change
InsertedInto(live, e, key) ==
    LET pre == Rec(0).pre
    IN /\ key \notin IssuedKeys(Arenas(pre)[live])
       /\ Get(Arenas(state)[live], key) = e
       /\ MapKeys(Arenas(state)[live]) = MapKeys(Arenas(pre)[live]) \cup {key}
       /\ \A k \in MapKeys(Arenas(pre)[live]) :
              Get(Arenas(state)[live], k) = Get(Arenas(pre)[live], k)
       /\ \A i \in 1..4 \ {live} : Arenas(state)[i] = Arenas(pre)[i]

\* after the operation `op`, an add with undo of kind `kind` on arena `live`
AddedWithUndo(op, kind, live) ==
    Ends(<<op>>) =>
        /\ PushedOne(Rec(0).pre.undo_actions, state.undo_actions)
        /\ Last(state.undo_actions).kind = kind
        /\ InsertedInto(live, Rec(0).arg, Last(state.undo_actions).key)
        /\ state.redo_actions = Rec(0).pre.redo_actions

\* after the operation `op`, a plain add on arena `live`
AddedPlain(op, live) ==
    Ends(<<op>>) =>
        /\ InsertedInto(live, Rec(0).arg, Rec(0).ret)
        /\ state.undo_actions = Rec(0).pre.undo_actions
        /\ state.redo_actions = Rec(0).pre.redo_actions

\* C22: add_stroke_with_undo(s) inserts s into the live stroke arena and pushes
\* exactly one entry AddStroke(k) on top of undo_actions, k being the key just
\* issued, which resolves to s in the live arena; the stroke graveyard, both text
\* arenas and redo_actions are unchanged.  add_text_with_undo likewise with
\* AddText.  Plain add_stroke / add_text push no action.
AddWithUndoLogsTheNewKey ==
    /\ AddedWithUndo("add_stroke_with_undo", "AddStroke", 1)
    /\ AddedWithUndo("add_text_with_undo", "AddText", 3)
    /\ AddedPlain("add_stroke", 1)
    /\ AddedPlain("add_text", 3)

\* add_text_with_undo has put a text into a slot that was used before, while
\* redo_actions held an entry and the text graveyard a text
AddTextIntoReusedSlotReached ==
    /\ Ends(<<"add_text_with_undo">>)
    /\ Last(state.undo_actions).key.version > 1
    /\ state.redo_actions # <<>>
    /\ MapLen(state.text_graveyard) = 1

\* a plain add_stroke was called on a store whose undo_actions held an entry
PlainAddReached ==
    /\ Ends(<<"add_stroke">>)
    /\ state.undo_actions # <<>>
    /\ MapLen(state.strokes) = 2

\* an undo()/redo() of direction dir found entries on its stack and none of them
\* resolvable: it emptied the stack and changed nothing else
AllStaleIsNoOp(dir) ==
    LET pre == Rec(0).pre
    IN /\ Ends(<<dir>>)
       /\ PopsFrom(dir, pre) # <<>>
       /\ Resolvable(pre, dir, PopsFrom(dir, pre)) = {}
       => /\ Arenas(state) = Arenas(pre)
          /\ PushesOnto(dir, state) = PushesOnto(dir, pre)
          /\ PopsFrom(dir, state) = <<>>

\* C23: an undo() that pops every entry of undo_actions without one successful
\* reversal (all entries stale) leaves the four arenas and redo_actions exactly as
\* they were and undo_actions empty; a redo() likewise with the stacks swapped.
AllStaleUndoIsNoOp ==
    /\ AllStaleIsNoOp("undo")
    /\ AllStaleIsNoOp("redo")

\* an undo() has popped two stale entries and found nothing to reverse
UndoAllStaleReached ==
    /\ Ends(<<"undo">>)
    /\ Len(Rec(0).pre.undo_actions) >= 2
    /\ Resolvable(Rec(0).pre, "undo", Rec(0).pre.undo_actions) = {}
    /\ state.undo_actions = <<>>
    /\ state.redo_actions # <<>>

\* a redo() has popped a stale entry and found nothing to redo
RedoAllStaleReached ==
    /\ Ends(<<"redo">>)
    /\ Rec(0).pre.redo_actions # <<>>
    /\ Resolvable(Rec(0).pre, "redo", Rec(0).pre.redo_actions) = {}
    /\ state.redo_actions = <<>>

\* the call of undo()/redo() that `loop` follows, under way or returned
Called == loop.pc # "idle" \/ (hist # <<>> /\ Rec(0).op \in {"undo", "redo"} /\ loop # Idle)

\* the direction of that call
CalledDir == IF loop.pc # "idle" THEN loop.pc ELSE Rec(0).op

\* every pass of the loop has popped one entry, so far without a reversal; the call
\* returns after at most as many pops as the stack had entries, with one reversal
\* made or the stack empty, and with the store undo()/redo() computes
LoopIsBounded ==
    Called =>
        LET n == Len(PopsFrom(CalledDir, loop.start))
        IN /\ loop.pops <= n
           /\ Len(PopsFrom(CalledDir, state)) = n - loop.pops
           /\ IsPrefix(PopsFrom(CalledDir, state), PopsFrom(CalledDir, loop.start))
           /\ loop.pc # "idle" =>
                  /\ Arenas(state) = Arenas(loop.start)
                  /\ PushesOnto(CalledDir, state) = PushesOnto(CalledDir, loop.start)
           /\ loop.pc = "idle" =>
                  /\ state = (IF CalledDir = "undo" THEN undo(loop.start) ELSE redo(loop.start))
                  /\ \/ /\ MadeReversal(CalledDir, 0)
                        /\ Cardinality(Moved(loop.start, state)) = 1
                     \/ /\ PopsFrom(CalledDir, state) = <<>>
                        /\ PushesOnto(CalledDir, state) = PushesOnto(CalledDir, loop.start)
                        /\ Arenas(state) = Arenas(loop.start)

\* C24: undo() and redo() always terminate: every pass of the loop pops one entry
\* from the stack being consumed, so a call on a stack of n entries finishes after
\* at most n pops, and on return either exactly one reversal was made or that
\* stack is empty.
UndoRedoTerminate ==
    /\ []LoopIsBounded
    /\ (loop.pc # "idle") ~> (loop.pc = "idle")

\* an undo() has returned after two passes: a stale entry popped, then a reversal
ReturnedAfterSkipsReached ==
    /\ loop.pc = "idle"
    /\ hist # <<>> /\ Rec(0).op = "undo"
    /\ loop.pops = 2
    /\ MadeReversal("undo", 0)

\* the vacant slots of m, in the order of the free list from slot i on; `fuel`
\* bounds the walk
RECURSIVE FreeList(_, _, _)
FreeList(m, i, fuel) ==
    IF i \notin 1..Len(m.slots) \/ fuel = 0 \/ m.slots[i].version % 2 = 1
    THEN <<>>
    ELSE <<i>> \o FreeList(m, m.slots[i].next_free, fuel - 1)

\* m is a SlotMap of values with contents in Contents: an occupied slot holds a
\* value, a vacant slot none, and the free list runs through the vacant slots, each
\* once
WellFormedMap(m, Contents) ==
    /\ DOMAIN m = {"slots", "free_head"}
    /\ \A i \in 1..Len(m.slots) :
           LET slot == m.slots[i]
           IN /\ slot.version \in Nat \ {0}
              /\ IF slot.version % 2 = 1
                 THEN /\ DOMAIN slot.value = {"id", "content"}
                      /\ slot.value.id \in Int
                      /\ slot.value.content \in Contents
                 ELSE slot.value = Vacant
    /\ LET free == FreeList(m, m.free_head, Len(m.slots))
       IN /\ {free[j] : j \in 1..Len(free)}
                 = {i \in 1..Len(m.slots) : m.slots[i].version % 2 = 0}
          /\ Len(free) = Cardinality({i \in 1..Len(m.slots) : m.slots[i].version % 2 = 0})

IsKey(k) ==
    /\ DOMAIN k = {"idx", "version"}
    /\ k.idx \in Nat \ {0}
    /\ k.version \in Nat /\ k.version % 2 = 1

WellFormedLog(log) ==
    \A i \in 1..Len(log) :
        /\ log[i].kind \in {"AddStroke", "RemoveStroke", "AddText", "RemoveText"}
        /\ IsKey(log[i].key)

\* st is a store: four arenas of strokes and texts, two stacks of actions
WellFormed(st) ==
    /\ WellFormedMap(st.strokes, StrokeContents)
    /\ WellFormedMap(st.stroke_graveyard, StrokeContents)
    /\ WellFormedMap(st.text, TextContents)
    /\ WellFormedMap(st.text_graveyard, TextContents)
    /\ WellFormedLog(st.undo_actions)
    /\ WellFormedLog(st.redo_actions)

\* the primitive returned: a store, and a key or the absent result
Returned(r) == WellFormed(r.st) /\ (r.key = None \/ IsKey(r.key))

\* the key lists a caller may pass for the live stroke arena: issued keys, stale or
\* not, and a key never issued
AnyKeyLists(m) == UNION {[1..n -> KeysFor(m)] : n \in 0..MaxKeys}

\* every operation applied to st with every key argument yields a store, and a key
\* or the absent result; a key that does not resolve yields the absent result
CompleteFrom(st) ==
    /\ \A c \in StrokeContents :
           /\ Returned(add_stroke(st, NewStroke(c)))
           /\ WellFormed(add_stroke_with_undo(st, NewStroke(c)))
    /\ \A c \in TextContents :
           /\ Returned(add_text(st, NewText(c)))
           /\ WellFormed(add_text_with_undo(st, NewText(c)))
    /\ \A k \in KeysFor(st.strokes) :
           /\ Returned(remove_stroke(st, k))
           /\ ~ContainsKey(st.strokes, k) => remove_stroke(st, k).key = None
    /\ \A k \in KeysFor(st.stroke_graveyard) :
           /\ Returned(restore_stroke(st, k))
           /\ ~ContainsKey(st.stroke_graveyard, k) => restore_stroke(st, k).key = None
    /\ \A k \in KeysFor(st.text) :
           /\ Returned(remove_text(st, k))
           /\ ~ContainsKey(st.text, k) => remove_text(st, k).key = None
    /\ \A k \in KeysFor(st.text_graveyard) :
           /\ Returned(restore_text(st, k))
           /\ ~ContainsKey(st.text_graveyard, k) => restore_text(st, k).key = None
    /\ \A keys \in AnyKeyLists(st.strokes) : WellFormed(delete_strokes(st, keys))
    /\ WellFormed(undo(st))
    /\ WellFormed(redo(st))
    /\ \A q \in Queries :
           LET found == strokes_within_point(st, q.mouse_point, q.brush_size)
           IN \A i \in 1..Len(found) : IsKey(found[i])

\* C25: no store operation aborts.  For every key argument (valid, stale or never
\* issued), add_*, remove_*, restore_*, delete_strokes, undo, redo and
\* strokes_within_point complete: each yields a store, and a failure shows only as
\* an absent result.
OperationsComplete ==
    /\ WellFormed(state)
    /\ hist # <<>> /\ Rec(0).op \notin {"strokes_within_point", "erase"} =>
           Rec(0).ret = None \/ IsKey(Rec(0).ret)
    /\ CompleteFrom(state)

\* restore_text was called with a key that was never issued, on a store with stale
\* entries on both stacks, and returned the absent result
NeverIssuedKeyRefusedReached ==
    /\ Ends(<<"restore_text">>)
    /\ Rec(0).arg \notin IssuedKeys(Rec(0).pre.text_graveyard)
    /\ Rec(0).ret = None
    /\ state.undo_actions # <<>>
    /\ Resolvable(state, "undo", state.undo_actions) = {}

\* the circle of stroke point q, of diameter d, meets the circle of the query: the
\* distance of the centers is at most d/2 + brush_size/2 (squared, and times four)
Meets(q, d, query) ==
    4 * ((q.x - query.mouse_point.x) * (q.x - query.mouse_point.x)
           + (q.y - query.mouse_point.y) * (q.y - query.mouse_point.y))
        <= (d + query.brush_size) * (d + query.brush_size)

\* the keys of the live strokes of st with a point whose circle meets the query's
Touched(st, query) ==
    {k \in MapKeys(st.strokes) :
        LET stroke == Get(st.strokes, k).content
        IN \E i \in 1..Len(stroke.points) : Meets(stroke.points[i], stroke.brush_size, query)}

\* C26: strokes_within_point(p, b) returns exactly the keys of the live strokes that
\* have at least one point q whose circle (q, brush_size/2) collides with the query
\* circle (p, b/2), each key once; strokes in the graveyard and strokes without
\* points are never returned, and the call modifies nothing in the store.
QueryFindsTouchedStrokes ==
    Ends(<<"strokes_within_point">>) =>
        LET found == Rec(0).ret
            pre == Rec(0).pre
        IN /\ {found[i] : i \in 1..Len(found)} = Touched(pre, Rec(0).arg)
           /\ \A i, j \in 1..Len(found) : i # j => found[i] # found[j]
           /\ \A i \in 1..Len(found) :
                  LET e == Get(pre.strokes, found[i])
                  IN /\ e # None
                     /\ e.content.points # <<>>
                     /\ CountIn(pre.stroke_graveyard, e) = 0
           /\ state = pre

\* a query on the boundary of the second point of a live line found that stroke and
\* nothing else, while a line of the same points lay in the graveyard
QueryOnBoundaryReached ==
    /\ Ends(<<"strokes_within_point">>)
    /\ Rec(0).arg = [mouse_point |-> [x |-> 20, y |-> 0], brush_size |-> 10]
    /\ Len(Rec(0).ret) = 1
    /\ \E e \in MapValues(state.stroke_graveyard) : e.content.points # <<>>

\* a query just beyond the boundary found nothing although a line was live
QueryBeyondBoundaryReached ==
    /\ Ends(<<"strokes_within_point">>)
    /\ Rec(0).arg = [mouse_point |-> [x |-> 21, y |-> 0], brush_size |-> 10]
    /\ Rec(0).ret = <<>>
    /\ \E e \in MapValues(state.strokes) : e.content.points # <<>>

\* C27: a successful load replaces the store wholesale: afterwards both arenas of
\* both kinds and both action stacks are exactly those of the loaded document,
\* nothing of the previous store (entities or log entries) survives, and
\* output_path is None.
LoadReplacesStore ==
    Ends(<<"load">>) =>
        LET doc == Rec(0).arg
        IN /\ Arenas(state) = Arenas(doc)
           /\ state.undo_actions = doc.undo_actions
           /\ state.redo_actions = doc.redo_actions
           /\ Entities(state) \cap Entities(Rec(0).pre) = {}
           /\ state.output_path = None

\* a document that carries an output_path was loaded over a store that held a
\* stroke, a text and entries on both stacks
LoadOverUsedStoreReached ==
    /\ Ends(<<"load">>)
    /\ Rec(0).arg.output_path # None
    /\ MapLen(Rec(0).pre.strokes) + MapLen(Rec(0).pre.stroke_graveyard) = 1
    /\ MapLen(Rec(0).pre.text) + MapLen(Rec(0).pre.text_graveyard) = 1
    /\ Rec(0).pre.undo_actions # <<>>
    /\ Rec(0).pre.redo_actions # <<>>

\* the entries of both stacks that resolve to entity e
EntriesOf(st, e) == {x \in Entries(st) : Target(st, x) = e}

\* the entry is of a kind and on a stack that fit an entity held by arena i: an Add*
\* in undo_actions or a Remove* in redo_actions for a live one, a Remove* in
\* undo_actions or an Add* in redo_actions for one in the graveyard
FitsArena(st, x, i) ==
    LET kind == EntryAt(st, x).kind
    IN CASE i = 1 -> \/ x[1] = "undo" /\ kind = "AddStroke"
                     \/ x[1] = "redo" /\ kind = "RemoveStroke"
         [] i = 2 -> \/ x[1] = "undo" /\ kind = "RemoveStroke"
                     \/ x[1] = "redo" /\ kind = "AddStroke"
         [] i = 3 -> \/ x[1] = "undo" /\ kind = "AddText"
                     \/ x[1] = "redo" /\ kind = "RemoveText"
         [] i = 4 -> \/ x[1] = "undo" /\ kind = "RemoveText"
                     \/ x[1] = "redo" /\ kind = "AddText"

\* C28: from the empty store, with add_stroke_with_undo, add_text_with_undo,
\* delete_strokes, undo and redo only, every entity has exactly one entry across
\* undo_actions and redo_actions that resolves to it, of the kind and on the stack
\* that match the arena holding the entity; every other entry is stale.
EveryEntityHasOneEntry ==
    /\ \A e \in Entities(state) :
           /\ Cardinality(EntriesOf(state, e)) = 1
           /\ \A x \in EntriesOf(state, e) : \A i \in 1..4 :
                  Place(state, e)[i] = 1 => FitsArena(state, x, i)
    /\ Cardinality({x \in Entries(state) : Target(state, x) # None})
           = Cardinality(Entities(state))

\* a live stroke whose entry is a RemoveStroke in redo_actions, a text in the
\* graveyard whose entry is an AddText in redo_actions, and a stale entry left in
\* undo_actions
EntriesOnRedoReached ==
    /\ \E e \in MapValues(state.strokes) : \E x \in EntriesOf(state, e) :
           x[1] = "redo" /\ EntryAt(state, x).kind = "RemoveStroke"
    /\ \E e \in MapValues(state.text_graveyard) : \E x \in EntriesOf(state, e) :
           x[1] = "redo" /\ EntryAt(state, x).kind = "AddText"
    /\ \E x \in Entries(state) : x[1] = "undo" /\ Target(state, x) = None

\* the store after n calls of undo(), and after n calls of redo()
RECURSIVE UndoTimes(_, _)
UndoTimes(st, n) == IF n = 0 THEN st ELSE UndoTimes(undo(st), n - 1)

RECURSIVE RedoTimes(_, _)
RedoTimes(st, n) == IF n = 0 THEN st ELSE RedoTimes(redo(st), n - 1)

\* the history ends with add_stroke_with_undo(s), delete_strokes([k]) for the key k
\* the add issued, undo(), undo()
AddEraseUndoUndo ==
    /\ Ends(<<"add_stroke_with_undo", "delete_strokes", "undo", "undo">>)
    /\ Rec(2).arg = <<KeyOfIn(PostOf(3).strokes, Rec(3).arg)>>

\* C29: erasing a stroke makes its original AddStroke entry permanently stale.
\* After add_stroke_with_undo(s), delete_strokes([k]), undo(), a further undo() pops
\* and discards AddStroke(k) without removing s: s is live, the one entry that
\* resolves to s is a RemoveStroke in redo_actions, and, the sequence started on the
\* empty store, undo_actions is empty and redo_actions holds exactly that entry.
\* From then on no number of undo() calls moves s to the graveyard; redo() does.
ErasedStrokeAddEntryStale ==
    AddEraseUndoUndo =>
        LET s == Rec(3).arg
            k == Rec(2).arg[1]
            before == Rec(3).pre
        IN /\ Rec(0).pre.undo_actions[Len(before.undo_actions) + 1] = AddStroke(k)
           /\ Len(state.undo_actions) <= Len(before.undo_actions)
           /\ CountIn(state.strokes, s) = 1
           /\ CountIn(state.stroke_graveyard, s) = 0
           /\ \A x \in EntriesOf(state, s) :
                  x[1] = "redo" /\ EntryAt(state, x).kind = "RemoveStroke"
           /\ Cardinality(EntriesOf(state, s)) = 1
           /\ before = DefaultState =>
                  /\ state.undo_actions = <<>>
                  /\ state.redo_actions = <<RemoveStroke(KeyOfIn(state.strokes, s))>>
                  /\ CountIn(redo(state).stroke_graveyard, s) = 1
           /\ \A n \in 1..(MaxLog + 1) :
                  /\ CountIn(UndoTimes(state, n).strokes, s) = 1
                  /\ CountIn(UndoTimes(state, n).stroke_graveyard, s) = 0
           /\ \E n \in 1..MaxLog :
                  /\ CountIn(RedoTimes(state, n).strokes, s) = 0
                  /\ CountIn(RedoTimes(state, n).stroke_graveyard, s) = 1

\* the four operations were made on the empty store
AddEraseUndoUndoReached ==
    /\ AddEraseUndoUndo
    /\ Rec(3).pre = DefaultState
    /\ state.undo_actions = <<>>

\* the four operations were made on a store with an earlier entry, which the last
\* undo() reversed after discarding AddStroke(k)
AddEraseUndoUndoOverEntryReached ==
    /\ AddEraseUndoUndo
    /\ MadeReversal("undo", 0)
    /\ Len(state.redo_actions) >= 2

\* the kinds of the entries of a stack
KindsIn(log) == {log[i].kind : i \in 1..Len(log)}

\* C30: from the empty store, no sequence of add_*_with_undo, delete_strokes, undo
\* and redo puts a RemoveText entry on either stack; a text reaches the graveyard
\* only by an undo() that reverses its AddText entry; every AddText entry in
\* undo_actions resolves in the live text arena.
NoRemoveTextEntry ==
    /\ "RemoveText" \notin KindsIn(state.undo_actions) \cup KindsIn(state.redo_actions)
    /\ \A i \in 1..Len(state.undo_actions) :
           state.undo_actions[i].kind = "AddText" =>
               ContainsKey(state.text, state.undo_actions[i].key)
    /\ hist # <<>> =>
           LET pre == Rec(0).pre
           IN \A e \in MapValues(state.text_graveyard) \ MapValues(pre.text_graveyard) :
                  /\ Rec(0).op = "undo"
                  /\ ReversedEntry(pre.undo_actions, state.undo_actions).kind = "AddText"
                  /\ Get(pre.text, ReversedEntry(pre.undo_actions, state.undo_actions).key) = e

\* a text in the graveyard came back by redo() and went there again by the undo()
\* of its new AddText entry
TextUndoneAgainReached ==
    /\ Ends(<<"redo", "undo">>)
    /\ MapLen(state.text_graveyard) = 1
    /\ MapLen(Rec(0).pre.text_graveyard) = 0
    /\ MapLen(Rec(1).pre.text_graveyard) = 1

StrokeKinds == {"AddStroke", "RemoveStroke"}

TextKinds == {"AddText", "RemoveText"}

\* the kinds of entry the most recent operation, an undo() or a redo() that made a
\* reversal, has reversed; no kind for any other operation
ReversedKind ==
    IF Rec(0).op \in {"undo", "redo"} /\ MadeReversal(Rec(0).op, 0)
    THEN {ReversedEntry(PopsFrom(Rec(0).op, Rec(0).pre), PopsFrom(Rec(0).op, state)).kind}
    ELSE {}

\* C31: the two entity kinds are isolated.  add_stroke, remove_stroke,
\* restore_stroke, delete_strokes and an undo()/redo() that reverses a stroke entry
\* leave the text arena and the text graveyard unchanged; add_text, remove_text,
\* restore_text and an undo()/redo() that reverses a text entry leave both stroke
\* arenas unchanged.
KindsAreIsolated ==
    hist # <<>> =>
        LET pre == Rec(0).pre
        IN /\ \/ Rec(0).op \in {"add_stroke", "add_stroke_with_undo", "remove_stroke",
                                "restore_stroke", "delete_strokes", "erase"}
              \/ ReversedKind \subseteq StrokeKinds /\ ReversedKind # {}
              => /\ state.text = pre.text
                 /\ state.text_graveyard = pre.text_graveyard
           /\ \/ Rec(0).op \in {"add_text", "add_text_with_undo", "remove_text",
                                "restore_text"}
              \/ ReversedKind \subseteq TextKinds /\ ReversedKind # {}
              => /\ state.strokes = pre.strokes
                 /\ state.stroke_graveyard = pre.stroke_graveyard

\* an undo() discarded a stale AddText entry and reversed the AddStroke entry below
\* it, with a text in the graveyard
StrokeReversedBelowTextEntryReached ==
    /\ Ends(<<"undo">>)
    /\ ReversedKind = {"AddStroke"}
    /\ Len(Rec(0).pre.undo_actions) - Len(state.undo_actions) = 2
    /\ Last(Rec(0).pre.undo_actions).kind = "AddText"
    /\ MapLen(state.text_graveyard) = 1

\* a redo() reversed a text entry while a stroke was live
TextReversedBesideStrokeReached ==
    /\ Ends(<<"redo">>)
    /\ ReversedKind = {"AddText"}
    /\ MapLen(state.strokes) = 1

\* the erase gesture at query q on the store st
EraseAt(st, q) == delete_strokes(st, strokes_within_point(st, q.mouse_point, q.brush_size))

\* C32: the erase gesture is idempotent across frames.
\* delete_strokes(strokes_within_point(p, b)) removes every hit stroke and grows
\* undo_actions by exactly the number of keys returned (all are live, none fails);
\* the same query and delete at the same p and b directly afterwards returns no
\* key, pushes no action and changes nothing.
EraseIsIdempotent ==
    /\ \A q \in Queries :
           LET keys == strokes_within_point(state, q.mouse_point, q.brush_size)
               once == EraseAt(state, q)
           IN /\ \A i \in 1..Len(keys) :
                     /\ ContainsKey(state.strokes, keys[i])
                     /\ CountIn(once.strokes, Get(state.strokes, keys[i])) = 0
                     /\ CountIn(once.stroke_graveyard, Get(state.strokes, keys[i])) = 1
              /\ MapLen(once.strokes) = MapLen(state.strokes) - Len(keys)
              /\ Len(once.undo_actions) = Len(state.undo_actions) + Len(keys)
              /\ strokes_within_point(once, q.mouse_point, q.brush_size) = <<>>
              /\ EraseAt(once, q) = once
    /\ Ends(<<"erase", "erase">>) /\ Rec(0).arg = Rec(1).arg =>
           /\ Len(Rec(0).pre.undo_actions)
                  = Len(Rec(1).pre.undo_actions) + Len(Rec(1).ret)
           /\ Rec(0).ret = <<>>
           /\ state = Rec(0).pre

\* the eraser removed two strokes in one frame and found nothing at the same
\* position in the next
ErasedTwiceReached ==
    /\ Ends(<<"erase", "erase">>)
    /\ Rec(0).arg = Rec(1).arg
    /\ Len(Rec(1).ret) = 2
    /\ MapLen(state.stroke_graveyard) = 2

\* the store, the action stacks and the output path of a State
StoreOf(st) ==
    <<st.strokes, st.stroke_graveyard, st.text, st.text_graveyard,
      st.undo_actions, st.redo_actions, st.output_path>>

\* the last step was a frame of the loop of run
FrameDone == hist # <<>> /\ Rec(0).op = "frame"

\* C33: key commands are gated by mode: a frame whose mode is TypingText after its
\* mode handling runs neither process_key_pressed_events nor
\* process_key_down_events and executes no press command, whatever keys are down;
\* the arenas, both action stacks and the output path are after the frame what
\* they were before it, and no processed flag has changed
KeyCommandsGatedByMode ==
    FrameDone /\ Rec(0).ret.mode = "TypingText" =>
        /\ Rec(0).ret.handlers = <<>>
        /\ Rec(0).ret.commands = <<>>
        /\ StoreOf(state) = StoreOf(Rec(0).pre)
        /\ locals.processed_press_commands = Rec(0).locals.processed_press_commands
        /\ state.mode = "TypingText"

\* C33 witness: a frame of typing with Z and H down, over a store that an undo
\* would change
TypedOverUndoKeyReached ==
    /\ FrameDone
    /\ Rec(0).ret.mode = "TypingText"
    /\ Rec(0).locals.working_text # None
    /\ {"KEY_Z", "KEY_H"} \subseteq Rec(0).arg.keys
    /\ state.undo_actions # <<>>
    /\ ~locals.processed_press_commands["Undo"]

\* the press commands that the last frame executed, those among them that are `command`
Executions(command) ==
    {i \in DOMAIN Rec(0).ret.commands : Rec(0).ret.commands[i] = command}

\* C34: a press command executes at most once per continuous hold of its key
\* combination.  The count of its executions since a key of the combination was
\* last up never exceeds one.  In every frame and for every command: it executes
\* at most once, and only when process_key_pressed_events runs with all its keys
\* down and its processed flag clear, and the flag is set afterwards; a set flag
\* stays set while the keys are down, and it is cleared only in a frame in which
\* process_key_pressed_events runs and a key of the combination is up; a frame in
\* which the handler runs with the keys down and the flag clear executes the
\* command, which is then the one execution of the hold
PressOncePerHold ==
    /\ \A command \in PressCommands : held[command] <= 1
    /\ FrameDone =>
          \A command \in PressCommands :
              LET before == Rec(0).locals.processed_press_commands[command]
                  after == locals.processed_press_commands[command]
                  ran == \E i \in DOMAIN Rec(0).ret.handlers :
                             Rec(0).ret.handlers[i] = "process_key_pressed_events"
                  down == AllKeysDown(Binding(command).keys, Rec(0).arg.keys)
              IN /\ Cardinality(Executions(command)) <= 1
                 /\ Executions(command) # {} => ~before /\ after /\ down /\ ran
                 /\ before /\ down => after /\ Executions(command) = {}
                 /\ before /\ ~after => ran /\ ~down
                 /\ ran /\ down /\ ~before =>
                        Executions(command) # {} /\ held[command] = 1

\* C34 witness: Z is still down in a frame after the one whose undo() it caused;
\* the handler runs, entries are left to undo, and nothing is undone
UndoKeyHeldOnReached ==
    /\ FrameDone
    /\ "KEY_Z" \in Rec(0).arg.keys
    /\ Rec(0).ret.handlers # <<>>
    /\ Rec(0).locals.processed_press_commands["Undo"]
    /\ Executions("Undo") = {}
    /\ held["Undo"] = 1
    /\ state.undo_actions # <<>>
    /\ state.redo_actions # <<>>
    /\ StoreOf(state) = StoreOf(Rec(0).pre)

\* C34, the flag kept through typing: Z was released and pressed again while the
\* handlers did not run; the frame of Enter runs them with Z down and the flag
\* still set by the earlier hold, and this hold performs no undo()
StaleFlagAfterTypingReached ==
    /\ FrameDone
    /\ Rec(0).pre.mode = "TypingText"
    /\ "KEY_Z" \in Rec(0).arg.keys
    /\ Rec(0).ret.handlers # <<>>
    /\ Rec(0).locals.processed_press_commands["Undo"]
    /\ Executions("Undo") = {}
    /\ held["Undo"] = 0
    /\ state.undo_actions # <<>>

PlayDuringRecordingReached ==
    /\ FrameDone
    /\ Executions("LoadAndPlayRecordedInputs") # {}
    /\ Rec(0).arg.recorded_events = 1
    /\ Rec(0).pre.is_recording_inputs
    /\ state.is_recording_inputs
    /\ ~state.is_playing_inputs

\* C35: a document loaded during a recording
LoadDuringRecordingReached ==
    /\ FrameDone
    /\ Rec(0).ret.loads = 1
    /\ Rec(0).pre.is_recording_inputs
    /\ ~state.is_recording_inputs

\* the last step was a frame that began in TypingText with Enter down
EnterFrameDone ==
    FrameDone /\ Rec(0).pre.mode = "TypingText" /\ "KEY_ENTER" \in Rec(0).arg.keys

\* the working text that frame began with is present and not empty
HadTextToCommit ==
    /\ Rec(0).locals.working_text # None
    /\ Rec(0).locals.working_text.content # <<>>

\* the frame ran no store operation after its mode handling
NoKeyCommandRan == Rec(0).ret.commands = <<>> /\ "KEY_H" \notin Rec(0).arg.keys

\* the part of the Enter frame that holds: add_text_with_undo is called exactly when
\* the working text is present and not empty, with that text; otherwise the store
\* stays as it was; the mode handling ends in UsingTool(Brush); the working text
\* is absent afterwards unless a character was pressed in the frame
EnterCommitsNonEmptyText ==
    EnterFrameDone =>
        /\ Rec(0).ret.commits = IF HadTextToCommit THEN 1 ELSE 0
        /\ Rec(0).ret.mode = "UsingTool(Brush)"
        /\ NoKeyCommandRan /\ HadTextToCommit =>
               StoreOf(state) =
                   StoreOf(add_text_with_undo(Rec(0).pre,
                               [id |-> issued.text,
                                content |-> Rec(0).locals.working_text]))
        /\ NoKeyCommandRan /\ ~HadTextToCommit => StoreOf(state) = StoreOf(Rec(0).pre)
        /\ Rec(0).arg.char_pressed = None => locals.working_text = None

\* C36: committing text with Enter in TypingText mode calls add_text_with_undo only
\* when the working text is present and its content is not empty; with an empty or
\* absent working text no text is added and no action is pushed; in every case the
\* working text is cleared and the mode becomes UsingTool(Brush)
EnterCommitsAndClears ==
    EnterFrameDone =>
        /\ Rec(0).ret.commits = IF HadTextToCommit THEN 1 ELSE 0
        /\ NoKeyCommandRan /\ ~HadTextToCommit => StoreOf(state) = StoreOf(Rec(0).pre)
        /\ locals.working_text = None
        /\ Rec(0).ret.mode = "UsingTool(Brush)"

\* C36: the working text left by a character pressed in the frame of Enter: it
\* holds that character alone and has no position
CharAfterEnterReached ==
    /\ EnterFrameDone
    /\ HadTextToCommit
    /\ Rec(0).ret.commits = 1
    /\ locals.working_text = [content |-> <<"a">>, position |-> None, size |-> 50]

\* C36: that working text committed later: a text without a position in the arena
PositionlessTextCommittedReached ==
    \E i \in 1..Len(state.text.slots) :
        /\ state.text.slots[i].version % 2 = 1
        /\ state.text.slots[i].value.content.position = None

\* the State with the path of a save that succeeded
SavedAs(st, answer) ==
    IF answer # None /\ answer.ok
    THEN [st EXCEPT !.output_path = [some |-> answer.path]]
    ELSE st

\* C37: a load that fails (a file that cannot be read or parsed) and a cancelled
\* file picker leave the whole State unchanged, arenas, action stacks and
\* output_path included; save_with_file_picker sets output_path only when the save
\* succeeded and changes nothing on failure or cancel.  This holds of both
\* functions on every reachable State, and of every frame that executed Load
\* without reading a document, or Save and SaveAs, and nothing else
FailedLoadAndSaveChangeNothing ==
    /\ load_with_file_picker(state, None) = state
    /\ load_with_file_picker(state, Picked(Err)) = state
    /\ \A answer \in SavePicks : save_with_file_picker(state, answer) = SavedAs(state, answer)
    /\ FrameDone /\ Rec(0).ret.commands = <<"Load">> /\ Rec(0).ret.loads = 0 =>
          state = Rec(0).pre
    /\ FrameDone /\ Rec(0).ret.commands = <<"Save">> =>
          state = IF Rec(0).pre.output_path = None
                  THEN SavedAs(Rec(0).pre, Rec(0).arg.save_picked)
                  ELSE Rec(0).pre
    /\ FrameDone /\ Rec(0).ret.commands = <<"Save", "SaveAs">> =>
          state = SavedAs(Rec(0).pre, Rec(0).arg.save_picked)

\* C37 witness: the load of a file that cannot be read, over a State with strokes,
\* entries on both stacks and a path from an earlier save
LoadFailedOverSavedStoreReached ==
    /\ FrameDone
    /\ Rec(0).ret.commands = <<"Load">>
    /\ Rec(0).arg.picked = Picked(Err)
    /\ state.undo_actions # <<>>
    /\ state.redo_actions # <<>>
    /\ state.output_path = [some |-> "saved.json"]

\* C37: the load dialog cancelled, over such a State
LoadCancelledReached ==
    /\ FrameDone
    /\ Rec(0).ret.commands = <<"Load">>
    /\ Rec(0).arg.picked = None
    /\ state.undo_actions # <<>>
    /\ state.output_path = [some |-> "saved.json"]

\* C37: a save under a chosen path that failed, and one that was cancelled
SaveFailedReached ==
    /\ FrameDone
    /\ Rec(0).ret.commands = <<"Save">>
    /\ Rec(0).arg.save_picked = [path |-> "saved.json", ok |-> FALSE]
    /\ Rec(0).pre.output_path = None
    /\ state.output_path = None
    /\ state.undo_actions # <<>>

\* C37: a save under a chosen path that succeeded
SaveSucceededReached ==
    /\ FrameDone
    /\ Rec(0).ret.commands = <<"Save">>
    /\ Rec(0).pre.output_path = None
    /\ state.output_path = [some |-> "saved.json"]
====
